---------------------------- MODULE Spec2Model ----------------------------
(***************************************************************************)
(* A model of go-pmem's crash-consistency core: the arena undo log, with   *)
(* and without crashes, the span allocation log, alone, with write-back    *)
(* and under threads, the value it records, the heap type bits log,        *)
(* persistent-memory initialization and the logs of the region it sets up. *)
(*                                                                         *)
(* Memory is modelled in units of one machine word (intSize = 8 bytes):    *)
(* every access the undo-log routines make is an aligned int, so an        *)
(* address is the index of a word and a length is a number of words.       *)
(* Undo-log addresses are relative to the pArena structure (pa), which is  *)
(* how logEntry stores them (off = addr - pa).                             *)
(***************************************************************************)
EXTENDS Integers, Sequences, FiniteSets, TLC

(***************************************************************************)
(* Bounds of the model.                                                    *)
(***************************************************************************)
\* Header fields of an arena other than the undo log's own storage.
NumFields == 2
\* Values a caller writes into a header field are 0..MaxVal.
MaxVal == 1
\* Undo-log operations (calls and caller writes) explored per run.
MaxUndoOps == 6

(***************************************************************************)
(* Program constants.                                                      *)
(***************************************************************************)
maxLogEntries == 2
\* unsafe.Sizeof(logEntry{}) in words: the fields off and val.
logEntrySize == 2

\* The words of one arena that the model follows: the ordinary header
\* fields, numLogEntries and logs[maxLogEntries].
ArenaWords == NumFields + 1 + maxLogEntries * logEntrySize
Words == 0 .. (ArenaWords - 1)
Vals == 0 .. MaxVal

VARIABLES
    mem,                \* the arena's words as the running process sees them
    dur,                \* the arena's words in the durable image
    wild,               \* a store went to an address outside the arena
    fatal,              \* the process was terminated by throw or a panic
    lastOp,             \* the operation that produced this state
    prevMem,            \* mem before that operation
    prevDur,            \* dur before that operation
    tx,                 \* history of the transaction opened by logEntry
    undoOps             \* operations so far

undoVars == <<mem, dur, wild, fatal, lastOp, prevMem, prevDur, tx, undoOps>>

(***************************************************************************)
(* The arena as the undo-log routines see it.  A routine is a function     *)
(* from an arena state to an arena state.                                  *)
(***************************************************************************)
PaState == [mem |-> mem, dur |-> dur, wild |-> wild, fatal |-> fatal]

\* The places of pa.numLogEntries and pa.logs in the arena header.  The
\* routines name these fields and never compute their places, so the header
\* is taken as: the ordinary fields, then numLogEntries, then logs.
numLogEntriesOff == NumFields
logsOff == NumFields + 1

\* The words the undo log itself occupies.
LogWords ==
    {numLogEntriesOff} \cup
    (logsOff .. (logsOff + maxLogEntries * logEntrySize - 1))

\* &pa.logs[i].off and &pa.logs[i].val
LogOffAddr(i) == logsOff + i * logEntrySize
LogValAddr(i) == logsOff + i * logEntrySize + 1

\* *(*int)(addr) = v.  A store outside the arena changes none of its words.
Store(pa, addr, v) ==
    IF addr \in Words
    THEN [pa EXCEPT !.mem = [pa.mem EXCEPT ![addr] = v]]
    ELSE [pa EXCEPT !.wild = TRUE]

\* PersistRange(addr, len): the words of the range are flushed and fenced,
\* so the durable image holds what the process sees.
PersistRange(pa, addr, len) ==
    [pa EXCEPT !.dur = [w \in Words |->
        IF w >= addr /\ w < addr + len THEN pa.mem[w] ELSE pa.dur[w]]]

\* throw(...), or the panic of an out-of-range index into pa.logs.
Throw(pa) == [pa EXCEPT !.fatal = TRUE]

\* pa.numLogEntries
NumLog(pa) == pa.mem[numLogEntriesOff]

\* logEntry with the capacity test placed after the count is raised.
logEntryLateCheck(pa, addr) ==
    LET ind == NumLog(pa)
    IN  IF addr >= ArenaWords THEN Throw(pa)
        ELSE IF ind >= maxLogEntries
        THEN Throw(Store(pa, numLogEntriesOff, ind + 1))
        ELSE PersistRange(
               Store(PersistRange(
                       Store(Store(pa, LogOffAddr(ind), addr),
                             LogValAddr(ind), pa.mem[addr]),
                       LogOffAddr(ind), logEntrySize),
                     numLogEntriesOff, ind + 1),
               numLogEntriesOff, 1)

(***************************************************************************)
(* func (pa *pArena) logEntry(addr unsafe.Pointer)                         *)
(***************************************************************************)
logEntry(pa, addr) ==
    LET off == addr
        ind == NumLog(pa)
    IN  IF off >= ArenaWords THEN Throw(pa)
        ELSE IF ind = maxLogEntries THEN Throw(pa)
        ELSE IF ind \notin 0 .. (maxLogEntries - 1) THEN Throw(pa)
        ELSE
          LET val == pa.mem[addr]
              s1 == Store(pa, LogOffAddr(ind), off)
              s2 == Store(s1, LogValAddr(ind), val)
              s3 == PersistRange(s2, LogOffAddr(ind), logEntrySize)
              s4 == Store(s3, numLogEntriesOff, ind + 1)
          IN  PersistRange(s4, numLogEntriesOff, 1)

(***************************************************************************)
(* func (pa *pArena) revertLog()                                           *)
(***************************************************************************)
RECURSIVE revertLoop(_, _)
revertLoop(pa, i) ==
    IF ~(i < NumLog(pa)) THEN pa
    ELSE IF i >= maxLogEntries THEN Throw(pa)
    ELSE
      LET addr == pa.mem[LogOffAddr(i)]
          s1 == Store(pa, addr, pa.mem[LogValAddr(i)])
      IN  revertLoop(PersistRange(s1, addr, 1), i + 1)

\* revertLog with a loop that leaves out the first entry.
revertLogSkipFirst(pa) ==
    IF NumLog(pa) = 0 THEN pa
    ELSE
      LET s1 == revertLoop(pa, 1)
      IN  IF s1.fatal THEN s1
          ELSE PersistRange(Store(s1, numLogEntriesOff, 0),
                            numLogEntriesOff, 1)

revertLog(pa) ==
    IF NumLog(pa) = 0 THEN pa
    ELSE
      LET s1 == revertLoop(pa, 0)
      IN  IF s1.fatal THEN s1
          ELSE PersistRange(Store(s1, numLogEntriesOff, 0), numLogEntriesOff, 1)

(***************************************************************************)
(* func (pa *pArena) resetLog()                                            *)
(***************************************************************************)
resetLog(pa) == PersistRange(Store(pa, numLogEntriesOff, 0), numLogEntriesOff, 1)

(***************************************************************************)
(* func (pa *pArena) commitLog()                                           *)
(***************************************************************************)
RECURSIVE commitLoop(_, _)
commitLoop(pa, i) ==
    IF ~(i < NumLog(pa)) THEN pa
    ELSE IF i >= maxLogEntries THEN Throw(pa)
    ELSE
      LET addr == pa.mem[LogOffAddr(i)]
      IN  commitLoop(PersistRange(pa, addr, 1), i + 1)

\* commitLog that writes the logged values back, as revertLog does.
commitLogCopiesBack(pa) ==
    LET s1 == revertLoop(pa, 0)
    IN  IF s1.fatal THEN s1
        ELSE PersistRange(Store(s1, numLogEntriesOff, 0), numLogEntriesOff, 1)

commitLog(pa) ==
    LET s1 == commitLoop(pa, 0)
    IN  IF s1.fatal THEN s1
        ELSE PersistRange(Store(s1, numLogEntriesOff, 0), numLogEntriesOff, 1)


(***************************************************************************)
(* The undo log in use: the calls of the four routines and the caller's    *)
(* writes to the fields it has logged.  A new arena is zero-filled: its    *)
(* undo log is empty.                                                      *)
(***************************************************************************)
\* tx.inLog records that some logEntry so far was given the address of a
\* word of the undo log itself.
NoTx == [open |-> FALSE, pre |-> [w \in Words |-> 0], targets |-> <<>>,
         mutated |-> {}, ok |-> TRUE, inLog |-> FALSE]

UndoInit ==
    /\ mem = [w \in Words |-> 0]
    /\ dur = mem
    /\ wild = FALSE
    /\ fatal = FALSE
    /\ lastOp = "none"
    /\ prevMem = mem
    /\ prevDur = dur
    /\ tx = NoTx
    /\ undoOps = 0

\* The state an operation leaves, and the record of what it was.
UndoApply(op, r) ==
    /\ mem' = r.mem
    /\ dur' = r.dur
    /\ wild' = r.wild
    /\ fatal' = r.fatal
    /\ lastOp' = op
    /\ prevMem' = mem
    /\ prevDur' = dur
    /\ undoOps' = undoOps + 1

UndoEnabled == ~fatal /\ undoOps < MaxUndoOps

\* The caller asks to log the field at addr; ArenaWords is an address past
\* the arena's end.
LogEntryCall ==
    /\ UndoEnabled
    /\ \E addr \in 0 .. ArenaWords :
         LET r == logEntry(PaState, addr)
         IN  /\ UndoApply(IF ~r.fatal THEN "logEntry"
                          ELSE IF addr >= ArenaWords THEN "throwInvalid"
                          ELSE "throwFull", r)
             /\ tx' = IF r.fatal THEN tx
                      ELSE IF ~tx.open
                      THEN [open |-> TRUE, pre |-> mem, targets |-> <<addr>>,
                            mutated |-> {}, ok |-> TRUE,
                            inLog |-> tx.inLog \/ addr \in LogWords]
                      ELSE [tx EXCEPT !.targets = Append(@, addr),
                                      !.ok = @ /\ addr \notin tx.mutated,
                                      !.inLog = @ \/ addr \in LogWords]

\* The caller writes a field it has logged.  The undo log's own words are
\* written by the four routines only.
MutateField ==
    /\ UndoEnabled
    /\ tx.open
    /\ \E i \in 1 .. Len(tx.targets), v \in Vals :
         LET t == tx.targets[i]
         IN  /\ t \notin LogWords
             /\ v # mem[t]
             /\ UndoApply("mutate", [PaState EXCEPT !.mem[t] = v])
             /\ tx' = [tx EXCEPT !.mutated = @ \cup {t}]

\* One of the three routines closes the transaction that logEntry opened.
Close(op, r) ==
    /\ tx.open
    /\ UndoApply(IF r.fatal THEN "panic" ELSE op, r)
    /\ tx' = [tx EXCEPT !.open = FALSE]

RevertLogCall == UndoEnabled /\ Close("revert", revertLog(PaState))
CommitLogCall == UndoEnabled /\ Close("commit", commitLog(PaState))
ResetLogCall == UndoEnabled /\ Close("reset", resetLog(PaState))

UndoNext ==
    \/ LogEntryCall
    \/ MutateField
    \/ RevertLogCall
    \/ CommitLogCall
    \/ ResetLogCall

(***************************************************************************)
(* The span allocation log.  The span bitmap holds one 32-bit entry per    *)
(* page of the arena; a span is logged in the entry of its first page.     *)
(***************************************************************************)
\* Bounds of the span log's model.
\* A large span has minLargePages .. minLargePages + ExtraLargePages pages.
ExtraLargePages == 1
\* Logging calls explored per run.
MaxSpanOps == 3

isNotPersistent == 0
isPersistent == 1
\* Runtime constants of the allocator.
pageShift == 13
maxSmallSize == 32768
pageSize == 2 ^ pageShift
\* "A large span uses 5 or more pages".
minLargePages == (maxSmallSize \div pageSize) + 1

VARIABLES
    spanBitmap,     \* the span log as the running process sees it
    spanDur,        \* the span log in the durable image
    spanFlushed,    \* entries flushed and not yet fenced
    spanFatal,      \* the process was terminated by throw
    spanLast,       \* the last logging call and what it did
    spanPrev,       \* spanBitmap before that call
    spanPrevDur,    \* spanDur before that call
    hist,           \* per entry, the successful calls made on it
    spanOps         \* calls so far

spanVars == <<spanBitmap, spanDur, spanFlushed, spanFatal, spanLast,
              spanPrev, spanPrevDur, hist, spanOps>>

\* The pages of the arena's data area that the model follows: two, so that
\* a call on one entry can be seen to leave the other alone.
Pages == {0, 1}

\* a | b on non-negative integers.
RECURSIVE BitOr(_, _)
BitOr(a, b) ==
    IF a = 0 THEN b
    ELSE IF b = 0 THEN a
    ELSE 2 * BitOr(a \div 2, b \div 2) + (IF a % 2 = 1 \/ b % 2 = 1 THEN 1 ELSE 0)

\* a << k and a >> k
Shl(a, k) == a * (2 ^ k)
Shr(a, k) == a \div (2 ^ k)

bool2int(b) == IF b THEN 1 ELSE 0

\* The start of the arena's data area, pArena.mapAddr + mdSize: the arena is
\* taken to be mapped at address 0 with one page of metadata.
arenaStart == pageSize

\* The spans the allocator may hand to the logging routines.  A small span
\* has a span class of 2 or more and elements of at most maxSmallSize bytes;
\* a large span has span class 0 or 1 and one element of npages pages.
SmallShapes ==
    {[spanclass |-> 2, elemsize |-> 8],
     [spanclass |-> 133, elemsize |-> maxSmallSize]}
LargeShapes ==
    {[spanclass |-> c, elemsize |-> n * pageSize] :
        c \in {0, 1}, n \in minLargePages .. (minLargePages + ExtraLargePages)}
Shapes == SmallShapes \cup LargeShapes

MSpan(m, sh, page, nz, ti) ==
    [memtype |-> m, spanclass |-> sh.spanclass, elemsize |-> sh.elemsize,
     base |-> arenaStart + page * pageSize, needzero |-> nz, typIndex |-> ti]

\* typIndex is 0 when the span is not kept for one type, else the type's
\* index.
TypIndexes == {0, 1}

VolatileSpans ==
    {MSpan(isNotPersistent, sh, pg, 0, 0) :
        sh \in {[spanclass |-> 2, elemsize |-> 8]}, pg \in Pages}

Spans ==
    {MSpan(isPersistent, sh, pg, nz, ti) :
        sh \in Shapes, pg \in Pages, nz \in {0, 1}, ti \in TypIndexes}
    \cup VolatileSpans

\* logSpanFree reads the span's memtype and base only.
FreedSpans ==
    {MSpan(isPersistent, sh, pg, 0, 0) :
        sh \in {[spanclass |-> 2, elemsize |-> 8]}, pg \in Pages}
    \cup VolatileSpans

ShapeOf(s) == [spanclass |-> s.spanclass, elemsize |-> s.elemsize]

\* spanLogValue with needzero shifted like the field above it.
spanLogValueShiftedNeedzero(s) ==
    IF s.elemsize > maxSmallSize
    THEN BitOr(BitOr(Shl(66 + Shr(s.elemsize, pageShift) - 4, 3),
                     Shl(s.spanclass, 2)), Shl(s.needzero, 2))
    ELSE BitOr(BitOr(Shl(s.spanclass, 2), Shl(bool2int(s.typIndex # 0), 1)),
               Shl(s.needzero, 2))

(***************************************************************************)
(* func spanLogValue(s *mspan) uint32                                      *)
(* Every value of the model is below 2^31, where uint32() changes nothing. *)
(***************************************************************************)
spanLogValue(s) ==
    IF s.elemsize > maxSmallSize
    THEN LET npages == Shr(s.elemsize, pageShift)
         IN  BitOr(BitOr(Shl(66 + npages - 4, 3), Shl(s.spanclass, 2)),
                   s.needzero)
    ELSE LET optTypeLog == bool2int(s.typIndex # 0)
         IN  BitOr(BitOr(Shl(s.spanclass, 2), Shl(optTypeLog, 1)), s.needzero)

\* spanLogAddr giving the first entry for every span.
spanLogAddrFirstEntry(s) == 0

(***************************************************************************)
(* func spanLogAddr(s *mspan) *uint32                                      *)
(* The address is given as the index of the entry in the span bitmap.      *)
(***************************************************************************)
spanLogAddr(s) == Shr(s.base - arenaStart, pageShift)

\* The span log as the logging routines see it, with what the call did.
SpanState ==
    [bitmap |-> spanBitmap, dur |-> spanDur, flushed |-> spanFlushed,
     fatal |-> spanFatal, stored |-> FALSE, didFlush |-> FALSE]

\* atomic.Store(logAddr, v)
AtomicStore(st, logAddr, v) ==
    [st EXCEPT !.bitmap[logAddr] = v, !.stored = TRUE]

\* FlushRange(logAddr, 4): the entry is on its way to the durable image.
FlushRange(st, logAddr) ==
    [st EXCEPT !.flushed = @ \cup {logAddr}, !.didFlush = TRUE]

\* Fence(): every flushed entry is durable.
FenceOf(st) ==
    [st EXCEPT !.dur = [p \in Pages |->
                          IF p \in st.flushed THEN st.bitmap[p] ELSE st.dur[p]],
               !.flushed = {}]

\* PersistRange(logAddr, 4) = FlushRange + Fence
PersistEntry(st, logAddr) == FenceOf(FlushRange(st, logAddr))

SpanThrow(st) == [st EXCEPT !.fatal = TRUE]

\* logSpanAlloc comparing one low bit less than it should.
logSpanAllocLowBit(st, s) ==
    IF s.memtype = isNotPersistent THEN SpanThrow(st)
    ELSE
      LET logAddr == spanLogAddr(s)
          logVal == spanLogValue(s)
          bitmapVal == st.bitmap[logAddr]
      IN  IF bitmapVal # 0 /\ Shr(bitmapVal, 3) # Shr(logVal, 3)
          THEN SpanThrow(st)
          ELSE IF bitmapVal # 0 /\ bitmapVal % 4 = logVal % 4
          THEN st
          ELSE FlushRange(AtomicStore(st, logAddr, logVal), logAddr)

\* logSpanAlloc without the comparison of the upper bits.
logSpanAllocNoCheck(st, s) ==
    IF s.memtype = isNotPersistent THEN SpanThrow(st)
    ELSE
      LET logAddr == spanLogAddr(s)
          logVal == spanLogValue(s)
      IN  IF st.bitmap[logAddr] = logVal THEN st
          ELSE FlushRange(AtomicStore(st, logAddr, logVal), logAddr)

\* logSpanAlloc that stores again when nothing changed.
logSpanAllocAlwaysStores(st, s) ==
    IF s.memtype = isNotPersistent THEN SpanThrow(st)
    ELSE
      LET logAddr == spanLogAddr(s)
          logVal == spanLogValue(s)
          bitmapVal == st.bitmap[logAddr]
      IN  IF bitmapVal # 0 /\ Shr(bitmapVal, 2) # Shr(logVal, 2)
          THEN SpanThrow(st)
          ELSE FlushRange(AtomicStore(st, logAddr, logVal), logAddr)

(***************************************************************************)
(* func logSpanAlloc(s *mspan)                                             *)
(***************************************************************************)
logSpanAlloc(st, s) ==
    IF s.memtype = isNotPersistent THEN SpanThrow(st)
    ELSE
      LET logAddr == spanLogAddr(s)
          logVal == spanLogValue(s)
          bitmapVal == st.bitmap[logAddr]
      IN  IF bitmapVal # 0 /\ Shr(bitmapVal, 2) # Shr(logVal, 2)
          THEN SpanThrow(st)
          ELSE IF bitmapVal # 0 /\ bitmapVal % 4 = logVal % 4
          THEN st
          ELSE FlushRange(AtomicStore(st, logAddr, logVal), logAddr)

\* logSpanFree that leaves the needzero bit in the entry.
logSpanFreeKeepsBit(st, s) ==
    IF s.memtype = isNotPersistent THEN SpanThrow(st)
    ELSE
      LET logAddr == spanLogAddr(s)
      IN  PersistEntry(AtomicStore(st, logAddr, st.bitmap[logAddr] % 2),
                       logAddr)

\* logSpanFree that flushes the entry and leaves the fence to its caller.
logSpanFreeNoFence(st, s) ==
    IF s.memtype = isNotPersistent THEN SpanThrow(st)
    ELSE
      LET logAddr == spanLogAddr(s)
      IN  FlushRange(AtomicStore(st, logAddr, 0), logAddr)

(***************************************************************************)
(* func logSpanFree(s *mspan)                                              *)
(***************************************************************************)
logSpanFree(st, s) ==
    IF s.memtype = isNotPersistent THEN SpanThrow(st)
    ELSE
      LET logAddr == spanLogAddr(s)
      IN  PersistEntry(AtomicStore(st, logAddr, 0), logAddr)

(***************************************************************************)
(* The span log in use: the allocator logs allocations and frees of spans  *)
(* and fences at the end of each allocation.  For every entry, hist keeps  *)
(* the last successful call (last), the shape of its span (cur), and, from *)
(* the last logSpanFree of an allocated entry, the value the entry held    *)
(* before it (a1) and the shape of the span that had written it (c1);      *)
(* afterFree says that the last logSpanAlloc directly followed that free.  *)
(***************************************************************************)
NoShape == [spanclass |-> 0, elemsize |-> 0]
NoHist == [last |-> "none", afterFree |-> FALSE, a1 |-> 0, c1 |-> NoShape,
           cur |-> NoShape]

SpanInit ==
    /\ spanBitmap = [p \in Pages |-> 0]
    /\ spanDur = [p \in Pages |-> 0]
    /\ spanFlushed = {}
    /\ spanFatal = FALSE
    /\ spanLast = [op |-> "none", page |-> 0, val |-> 0,
                   stored |-> FALSE, didFlush |-> FALSE]
    /\ spanPrev = [p \in Pages |-> 0]
    /\ spanPrevDur = [p \in Pages |-> 0]
    /\ hist = [p \in Pages |-> NoHist]
    /\ spanOps = 0

SpanApply(op, page, val, r) ==
    /\ spanBitmap' = r.bitmap
    /\ spanDur' = r.dur
    /\ spanFlushed' = r.flushed
    /\ spanFatal' = r.fatal
    /\ spanLast' = [op |-> op, page |-> page, val |-> val,
                    stored |-> r.stored, didFlush |-> r.didFlush]
    /\ spanPrev' = spanBitmap
    /\ spanPrevDur' = spanDur
    /\ spanOps' = spanOps + 1

SpanEnabled == ~spanFatal /\ spanOps < MaxSpanOps

LogSpanAllocCall ==
    /\ SpanEnabled
    /\ \E s \in Spans :
         LET r == logSpanAlloc(SpanState, s)
             p == spanLogAddr(s)
         IN  /\ SpanApply(IF ~r.fatal THEN "alloc"
                          ELSE IF s.memtype = isNotPersistent
                          THEN "throwInvalid" ELSE "throwMismatch",
                          p, spanLogValue(s), r)
             /\ hist' = IF r.fatal THEN hist
                        ELSE [hist EXCEPT ![p] =
                                [@ EXCEPT !.last = "alloc",
                                          !.afterFree = (hist[p].last = "free"
                                                         /\ hist[p].a1 # 0),
                                          !.cur = ShapeOf(s)]]

LogSpanFreeCall ==
    /\ SpanEnabled
    /\ \E s \in FreedSpans :
         LET r == logSpanFree(SpanState, s)
             p == spanLogAddr(s)
         IN  /\ SpanApply(IF r.fatal THEN "throwInvalid" ELSE "free", p, 0, r)
             /\ hist' = IF r.fatal THEN hist
                        ELSE [hist EXCEPT ![p] =
                                [@ EXCEPT !.last = "free",
                                          !.afterFree = FALSE,
                                          !.a1 = IF hist[p].last = "alloc"
                                                 THEN spanBitmap[p] ELSE 0,
                                          !.c1 = hist[p].cur]]

\* The fence the allocator issues at the end of an allocation.
FenceCall ==
    /\ ~spanFatal
    /\ spanFlushed # {}
    /\ LET r == FenceOf(SpanState)
       IN  /\ spanDur' = r.dur
           /\ spanFlushed' = r.flushed
           /\ spanLast' = [op |-> "fence", page |-> 0, val |-> 0,
                           stored |-> FALSE, didFlush |-> FALSE]
           /\ spanPrev' = spanBitmap
           /\ spanPrevDur' = spanDur
           /\ UNCHANGED <<spanBitmap, spanFatal, hist, spanOps>>

SpanNext ==
    \/ LogSpanAllocCall
    \/ LogSpanFreeCall
    \/ FenceCall

(***************************************************************************)
(* Initialization of the persistent memory region: PmallocInit.  Several   *)
(* goroutines may call it at once; each call is followed from one access   *)
(* of shared state to the next.  The region's header is kept twice: as the *)
(* process reads and writes it through the mapping, and as it is on the    *)
(* backing store, where a word written by the process arrives at a time    *)
(* the process does not choose, since PmallocInit neither flushes nor      *)
(* fences.                                                                 *)
(***************************************************************************)
\* Bounds of the model of PmallocInit.
\* Goroutines that call PmallocInit.
NumCallers == 2
\* Calls of PmallocInit explored per run.
MaxInitCalls == 2
\* Ends of the process (a crash of the machine or an exit, each followed by
\* a new process) explored per run.
MaxCrashes == 1

\* Program constants.
logBytesPerPage == 4
pmemHdrMagic == 180149434
pmemHdrSize == 16
pmemInitSize == 67108864
heapBytesPerPage == pageSize \div 32
initNotDone == 0
initOngoing == 1
initDone == 2

VARIABLES
    pmemInfo,           \* the runtime's record of the region
    pc,                 \* where each caller is inside PmallocInit
    loc,                \* each caller's arguments and local variables
    hdrMem,             \* header words of the file as read through the mapping
    hdrDur,             \* header words of the file on the backing store
    mapped,             \* the file is mapped into the address space
    initLast,           \* the step that produced this state
    initPrev,           \* pmemInfo before that step
    tally,              \* CAS wins, failed winners and successes of this run
    ftSize,             \* per header, the size of the call that wrote its magic
    initCalls,          \* calls so far
    crashes,            \* ends of the process so far
    heapFree,           \* the span growPmemRegion freed into the heap
    initHist            \* history: arguments, returned value, earlier state

initVars == <<pmemInfo, pc, loc, hdrMem, hdrDur, mapped, initLast, initPrev,
              tally, ftSize, initCalls, crashes, heapFree, initHist>>

Callers == 1 .. NumCallers

\* The arguments callers pass: sizes of one, one and a half, and two arenas;
\* offsets that are zero, not page-aligned, and one page.
Sizes == {pmemInitSize, 3 * (pmemInitSize \div 2), 2 * pmemInitSize}
Offsets == {0, 1, pageSize}

\* The file name every caller passes.
FName == "pmem"

\* The address at which sysAlloc maps the file.
mappedAddr == 4 * pmemInitSize

\* The header of a region is at file offset 'offset': addresses[0] is the
\* magic, addresses[1] the size, and the span bitmap starts at addresses[2].
HdrOffsets == {o \in Offsets : o % pageSize = 0}
magicAddr(hdr) == hdr
sizeAddr(hdr) == hdr + 8
\* The span bitmap taken to start at addresses[1].
spanBitsAddrAtSize(hdr) == hdr + 8
spanBitsAddr(hdr) == hdr + pmemHdrSize
HdrWords == {magicAddr(o) : o \in HdrOffsets} \cup {sizeAddr(o) : o \in HdrOffsets}

\* round(n, a): n rounded up to a multiple of a.
round(n, a) == ((n + a - 1) \div a) * a

\* The sizes PmallocInit computes from its arguments.
Layout(size, offset) ==
    LET availSize == size - offset
        availPages == Shr(availSize, pageShift)
        heapTypeBitmapSize == availPages * heapBytesPerPage
        spanBitmapSize == availPages * logBytesPerPage
        headerSize == heapTypeBitmapSize + spanBitmapSize + pmemHdrSize
        reserveSize == offset + headerSize
        reservePages == Shr(round(reserveSize, pageSize), pageShift)
        totalPages == Shr(size, pageShift)
    IN  [spanBitmapSize |-> spanBitmapSize,
         reservePages |-> reservePages,
         totalPages |-> totalPages,
         usablePages |-> totalPages - reservePages]

\* PmallocInit's tests of its arguments without the test of the offset.
ValidArgsNoAlignment(size, offset) ==
    ~((size - offset) < pmemInitSize \/ size % pmemInitSize # 0)

\* PmallocInit's tests of its arguments.
ValidArgs(size, offset) ==
    /\ ~((size - offset) < pmemInitSize \/ size % pmemInitSize # 0)
    /\ ~(offset % pageSize # 0)

\* atomic.Cas(&pmemInfo.initState, old, new) that succeeds whatever the state.
CasBlind(info, old, new) ==
    [ok |-> TRUE, info |-> [info EXCEPT !.initState = new]]

\* atomic.Cas(&pmemInfo.initState, old, new)
Cas(info, old, new) ==
    IF info.initState = old
    THEN [ok |-> TRUE, info |-> [info EXCEPT !.initState = new]]
    ELSE [ok |-> FALSE, info |-> info]

\* atomic.Store(&pmemInfo.initState, v) that is left out.
StoreInitStateDropped(info, v) == info

\* atomic.Store(&pmemInfo.initState, v)
StoreInitState(info, v) == [info EXCEPT !.initState = v]

\* growPmemRegion: the address of the mapping, or 0 (nil) when sysAlloc gave
\* no memory ("nil") or less than asked for ("short").
SysAllocOutcomes == {"ok", "nil", "short"}
growPmemRegion(npages, reservePages, outcome) ==
    IF outcome = "ok" THEN mappedAddr ELSE 0

NoWindow == [addr |-> 0, len |-> 0]
NoInfo == [fname |-> "", initState |-> initNotDone, spanBitmap |-> NoWindow,
           typeBitmap |-> NoWindow, startAddr |-> 0, endAddr |-> 0]
NoLoc == [size |-> 0, offset |-> 0, addr |-> 0, firstTime |-> FALSE]
NoTally == [wins |-> 0, fails |-> 0, succ |-> 0]

\* The span growPmemRegion hands to the heap: the pages after the reserved
\* ones, freed with freeSpanLocked.
NoSpan == [base |-> 0, npages |-> 0]
growPmemSpan(v, npages, reservePages) ==
    [base |-> v + Shl(reservePages, pageShift), npages |-> npages - reservePages]

\* History kept for the properties: the arguments of a call that was refused
\* for its arguments (NoArgs for other steps; the arguments of a call that
\* went on are in loc), the value a step returned (-1: the call goes
\* on, 0: nil), the file, mapping, callers and heap before a step that
\* began a call, and the
\* first successful first-time call and the last successful call of the
\* running process, each with its arguments, its addresses relative to the
\* mapping, and the number of the process that made it.
NoArgs == [size |-> 0, offset |-> 0]
NoRun == [set |-> FALSE, size |-> 0, offset |-> 0, firstTime |-> FALSE,
          start |-> 0, end |-> 0, gen |-> 0]
Before == [hdrMem |-> hdrMem, hdrDur |-> hdrDur, mapped |-> mapped, pc |-> pc,
           heapFree |-> heapFree]
NoBefore == [hdrMem |-> [w \in HdrWords |-> 0], hdrDur |-> [w \in HdrWords |-> 0],
             mapped |-> FALSE, pc |-> [c \in Callers |-> "idle"],
             heapFree |-> NoSpan]
InitRecord(args, ret, prev, first, last) ==
    initHist' = [args |-> args, ret |-> ret, prev |-> prev,
                 first |-> first, last |-> last]
CallRecord(size, offset, ret) ==
    InitRecord([size |-> size, offset |-> offset], ret, Before,
               initHist.first, initHist.last)
Step(ret) == InitRecord(NoArgs, ret, NoBefore, initHist.first, initHist.last)

\* A process that has not called PmallocInit, and a backing file of zeros.
PmemInit ==
    /\ pmemInfo = NoInfo
    /\ pc = [c \in Callers |-> "idle"]
    /\ loc = [c \in Callers |-> NoLoc]
    /\ hdrMem = [w \in HdrWords |-> 0]
    /\ hdrDur = [w \in HdrWords |-> 0]
    /\ mapped = FALSE
    /\ initLast = [op |-> "none", c |-> 0]
    /\ initPrev = NoInfo
    /\ tally = NoTally
    /\ ftSize = [o \in HdrOffsets |-> 0]
    /\ initCalls = 0
    /\ crashes = 0
    /\ heapFree = NoSpan
    /\ initHist = [args |-> NoArgs, ret |-> -1, prev |-> NoBefore,
                   first |-> NoRun, last |-> NoRun]

\* The record of a step, and a caller's return.
InitStep(op, c, info) ==
    /\ pmemInfo' = info
    /\ initLast' = [op |-> op, c |-> c]
    /\ initPrev' = pmemInfo

Return(c) ==
    /\ pc' = [pc EXCEPT ![c] = "idle"]
    /\ loc' = [loc EXCEPT ![c] = NoLoc]

\* A call: the tests of the arguments and the compare-and-swap of initState.
PmallocInitCall(c) ==
    /\ pc[c] = "idle"
    /\ initCalls < MaxInitCalls
    /\ initCalls' = initCalls + 1
    /\ \E size \in Sizes, offset \in Offsets :
         LET r == Cas(pmemInfo, initNotDone, initOngoing)
         IN  IF ~ValidArgs(size, offset)
             THEN /\ InitStep("badArgs", c, pmemInfo)
                  /\ CallRecord(size, offset, 0)
                  /\ UNCHANGED <<pc, loc, tally>>
             ELSE IF ~r.ok
             THEN /\ InitStep("casLost", c, r.info)
                  /\ CallRecord(0, 0, 0)
                  /\ UNCHANGED <<pc, loc, tally>>
             ELSE /\ InitStep("casWon", c, r.info)
                  /\ CallRecord(0, 0, -1)
                  /\ pc' = [pc EXCEPT ![c] = "map"]
                  /\ loc' = [loc EXCEPT ![c] = [NoLoc EXCEPT !.size = size,
                                                             !.offset = offset]]
                  /\ tally' = [tally EXCEPT !.wins = @ + 1]
    /\ UNCHANGED <<hdrMem, hdrDur, mapped, ftSize, crashes, heapFree>>

\* The winner records the file name and maps the file; when the mapping
\* fails it puts initState back and returns nil.
MapRegion(c) ==
    /\ pc[c] = "map"
    /\ \E outcome \in SysAllocOutcomes :
         LET l == Layout(loc[c].size, loc[c].offset)
             named == [pmemInfo EXCEPT !.fname = FName]
             pmemMappedAddr == growPmemRegion(l.totalPages, l.reservePages,
                                              outcome)
         IN  IF pmemMappedAddr = 0
             THEN /\ InitStep("mapFailed", c,
                              StoreInitState(named, initNotDone))
                  /\ Return(c)
                  /\ Step(0)
                  /\ tally' = [tally EXCEPT !.fails = @ + 1]
                  /\ UNCHANGED <<mapped, heapFree>>
             ELSE /\ InitStep("mapped", c,
                              [named EXCEPT !.startAddr = pmemMappedAddr
                                   + Shl(l.reservePages, pageShift)])
                  /\ pc' = [pc EXCEPT ![c] = "hdr"]
                  /\ loc' = [loc EXCEPT ![c].addr = pmemMappedAddr]
                  /\ mapped' = TRUE
                  /\ heapFree' = growPmemSpan(pmemMappedAddr, l.totalPages,
                                              l.reservePages)
                  /\ Step(-1)
                  /\ UNCHANGED tally
    /\ UNCHANGED <<hdrMem, hdrDur, ftSize, initCalls, crashes>>

\* The winner reads the magic and, when it is there, the size; a size other
\* than the one asked for unmaps the file, puts initState back and returns
\* nil.
ReadHeader(c) ==
    /\ pc[c] = "hdr"
    /\ LET hdr == loc[c].offset
       IN  IF hdrMem[magicAddr(hdr)] = pmemHdrMagic
           THEN IF hdrMem[sizeAddr(hdr)] # loc[c].size
                THEN /\ InitStep("sizeMismatch", c,
                                 StoreInitState(pmemInfo, initNotDone))
                     /\ Return(c)
                     /\ Step(0)
                     /\ mapped' = FALSE
                     /\ tally' = [tally EXCEPT !.fails = @ + 1]
                ELSE /\ InitStep("notFirstTime", c, pmemInfo)
                     /\ Step(-1)
                     /\ pc' = [pc EXCEPT ![c] = "install"]
                     /\ UNCHANGED <<loc, mapped, tally>>
           ELSE /\ InitStep("firstTime", c, pmemInfo)
                /\ Step(-1)
                /\ pc' = [pc EXCEPT ![c] = "size"]
                /\ loc' = [loc EXCEPT ![c].firstTime = TRUE]
                /\ UNCHANGED <<mapped, tally>>
    /\ UNCHANGED <<hdrMem, hdrDur, ftSize, initCalls, crashes, heapFree>>

\* *sizeAddr = size
WriteSize(c) ==
    /\ pc[c] = "size"
    /\ hdrMem' = [hdrMem EXCEPT ![sizeAddr(loc[c].offset)] = loc[c].size]
    /\ InitStep("writeSize", c, pmemInfo)
    /\ Step(-1)
    /\ pc' = [pc EXCEPT ![c] = "magic"]
    /\ UNCHANGED <<loc, hdrDur, mapped, tally, ftSize, initCalls, crashes,
                   heapFree>>

\* *magicAddr = pmemHdrMagic
WriteMagic(c) ==
    /\ pc[c] = "magic"
    /\ hdrMem' = [hdrMem EXCEPT ![magicAddr(loc[c].offset)] = pmemHdrMagic]
    /\ ftSize' = [ftSize EXCEPT ![loc[c].offset] = loc[c].size]
    /\ InitStep("writeMagic", c, pmemInfo)
    /\ Step(-1)
    /\ pc' = [pc EXCEPT ![c] = "install"]
    /\ UNCHANGED <<loc, hdrDur, mapped, tally, initCalls, crashes, heapFree>>

\* The bitmap windows and the end address.
InstallBitmaps(c) ==
    /\ pc[c] = "install"
    /\ LET l == Layout(loc[c].size, loc[c].offset)
           spanBits == loc[c].addr + spanBitsAddr(loc[c].offset)
           typeEntries == Shl(l.usablePages, pageShift) \div 32
           typeBitsAddr == spanBits + l.spanBitmapSize
       IN  InitStep("install", c,
               [pmemInfo EXCEPT
                    !.spanBitmap = [addr |-> spanBits, len |-> l.usablePages],
                    !.typeBitmap = [addr |-> typeBitsAddr, len |-> typeEntries],
                    !.endAddr = pmemInfo.startAddr
                                    + Shl(l.usablePages, pageShift) - 1])
    /\ pc' = [pc EXCEPT ![c] = "finish"]
    /\ Step(-1)
    /\ UNCHANGED <<loc, hdrMem, hdrDur, mapped, tally, ftSize, initCalls,
                   crashes, heapFree>>

\* atomic.Store(&pmemInfo.initState, initDone); return pmemMappedAddr
Finish(c) ==
    /\ pc[c] = "finish"
    /\ InitStep("success", c, StoreInitState(pmemInfo, initDone))
    /\ Return(c)
    /\ LET run == [set |-> TRUE, size |-> loc[c].size,
                   offset |-> loc[c].offset, firstTime |-> loc[c].firstTime,
                   start |-> pmemInfo.startAddr - loc[c].addr,
                   end |-> pmemInfo.endAddr - loc[c].addr, gen |-> crashes]
       IN  InitRecord(NoArgs, loc[c].addr, NoBefore,
                      IF loc[c].firstTime /\ ~initHist.first.set
                      THEN run ELSE initHist.first,
                      run)
    /\ tally' = [tally EXCEPT !.succ = @ + 1]
    /\ UNCHANGED <<hdrMem, hdrDur, mapped, ftSize, initCalls, crashes,
                   heapFree>>

\* A header word written by the process reaches the backing store.  Nothing
\* in PmallocInit orders this: a word is written back when the hardware or
\* the kernel chooses.
WriteBack ==
    /\ \E w \in HdrWords :
         /\ hdrMem[w] # hdrDur[w]
         /\ hdrDur' = [hdrDur EXCEPT ![w] = hdrMem[w]]
    /\ InitStep("writeBack", 0, pmemInfo)
    /\ Step(-1)
    /\ UNCHANGED <<pc, loc, hdrMem, mapped, tally, ftSize, initCalls, crashes,
                   heapFree>>

\* The machine stops and the process is started again: pmemInfo and the
\* callers are new, and the file holds what had reached the backing store.
Crash ==
    /\ crashes < MaxCrashes
    /\ crashes' = crashes + 1
    /\ InitStep("newProcess", 0, NoInfo)
    /\ pc' = [c \in Callers |-> "idle"]
    /\ loc' = [c \in Callers |-> NoLoc]
    /\ hdrMem' = hdrDur
    /\ mapped' = FALSE
    /\ tally' = NoTally
    /\ heapFree' = NoSpan
    /\ InitRecord(NoArgs, -1, NoBefore, initHist.first, NoRun)
    /\ UNCHANGED <<hdrDur, ftSize, initCalls>>

\* The process exits and a new one is started: pmemInfo and the callers are
\* new, and the file is as the old process left it.
Restart ==
    /\ crashes < MaxCrashes
    /\ crashes' = crashes + 1
    /\ InitStep("newProcess", 0, NoInfo)
    /\ pc' = [c \in Callers |-> "idle"]
    /\ loc' = [c \in Callers |-> NoLoc]
    /\ mapped' = FALSE
    /\ tally' = NoTally
    /\ heapFree' = NoSpan
    /\ InitRecord(NoArgs, -1, NoBefore, initHist.first, NoRun)
    /\ UNCHANGED <<hdrMem, hdrDur, ftSize, initCalls>>

(***************************************************************************)
(* The heap type bits log: logHeapBits and clearHeapBits.  The log has one *)
(* byte for every 32 bytes of the arena's data area.  It is kept as the    *)
(* bytes that are not zero, by their position from the start of the log,   *)
(* once as the process sees it and once as it is on the backing store.     *)
(***************************************************************************)
\* Bound of the model of the heap type bits log: the calls followed.
MaxHeapBitsOps == 3

\* One byte of log describes this many bytes of heap.
bytesPerBitmapByte == 32

\* unsafe.Sizeof(int(0))
intSize == 8

VARIABLES
    typeBits,      \* the heap type bits log as the process sees it
    typeBitsDur,   \* the heap type bits log on the backing store
    hbFatal,       \* the process was ended by throw
    hbLast,        \* the last call, with the log bytes it stored and flushed
    typeBitsPrev,  \* typeBits before the last call
    typeBitsPrevDur, \* typeBitsDur before the last call
    hbOps          \* calls made

hbVars == <<typeBits, typeBitsDur, hbFatal, hbLast, typeBitsPrev,
            typeBitsPrevDur, hbOps>>

\* The type descriptors (_type) of the program: typ.kind, typ.size,
\* typ.ptrdata and, in typ.gcdata, one bit for each pointer-sized word of
\* the first ptrdata bytes.
Types ==
    <<[kind |-> 22, size |-> 16, ptrdata |-> 8, gcdata |-> <<1>>],
      [kind |-> 25, size |-> 80, ptrdata |-> 72, gcdata |-> <<85, 1>>]>>

\* The spans of objects whose heap type bits are logged: a span kept for one
\* type has that type's index as typIndex, any other span has 0.
HeapBitsSpans ==
    {MSpan(m, [spanclass |-> 20, elemsize |-> 96], pg, 0, ti) :
        m \in {isPersistent, isNotPersistent}, pg \in Pages,
        ti \in 0 .. Len(Types)}

\* The objects of a span that are followed: the first and the last.
ObjectsOf(s) ==
    {s.base, s.base + ((pageSize \div s.elemsize) - 1) * s.elemsize}

\* The heap type bits the allocator set for an object, startByte .. endByte.
HeapBitsOf == {<<17>>, <<51, 3>>}

\* The sizes clearHeapBits is called with.
ClearSizes == {32, 48, 96}

\* Byte i of the little-endian form of v, for 0 <= v < 2^24.
ByteOf(v, i) == IF i < 3 THEN (v \div (256 ^ i)) % 256 ELSE 0

\* v as the intSize bytes it is stored in.
IntBytes(v) == [i \in 1 .. intSize |-> ByteOf(v, i - 1)]

Get(bits, p) == IF p \in DOMAIN bits THEN bits[p] ELSE 0

\* bits with the bytes of data at positions p, p+1, ...
Put(bits, p, data) ==
    LET at(q) == IF q \in p .. (p + Len(data) - 1) THEN data[q - p + 1]
                 ELSE Get(bits, q)
        dom == {q \in DOMAIN bits \cup (p .. (p + Len(data) - 1)) : at(q) # 0}
    IN  [q \in dom |-> at(q)]

\* The heap type bits log as the logging routines see it, with the positions
\* the call stored to and the positions it made durable.
HeapBitsState ==
    [bits |-> typeBits, dur |-> typeBitsDur, fatal |-> hbFatal,
     written |-> {}, persisted |-> {}]

\* memmove(to, from, n) and the stores *(*T)(to) = v, into the log
HeapBitsStore(st, p, data) ==
    [st EXCEPT !.bits = Put(st.bits, p, data),
               !.written = @ \cup (p .. (p + Len(data) - 1))]

\* PersistRange(addr, n) on the log
HeapBitsPersist(st, p, n) ==
    [st EXCEPT !.dur = Put(st.dur, p, [i \in 1 .. n |-> Get(st.bits, p + i - 1)]),
               !.persisted = @ \cup (p .. (p + n - 1))]

HeapBitsThrow(st) == [st EXCEPT !.fatal = TRUE]

\* pmemHeapBitsAddr counting from the start of the mapping.
pmemHeapBitsAddrFromMap(x) == x \div 32

(***************************************************************************)
(* func pmemHeapBitsAddr(x uintptr, pa *pArena) unsafe.Pointer             *)
(* The position in the log of the byte for address x.                      *)
(***************************************************************************)
pmemHeapBitsAddr(x) == (x - arenaStart) \div 32

\* The bytes of log that the descriptor record of typ takes after its
\* 32 bytes of fixed fields.
numHeapTypeBytes(typ) == (((typ.ptrdata + 7) \div 8) + 7) \div 8

\* logHeapBits writing the descriptor record at the object's position.
logHeapBitsAtObject(st, span, addr, heapBits, typ) ==
    IF span.memtype # isPersistent THEN HeapBitsThrow(st)
    ELSE IF span.typIndex # 0
    THEN LET typAddr == pmemHeapBitsAddr(addr)
             s1 == IF [i \in 1 .. intSize |-> Get(st.bits, typAddr + i - 1)]
                       # IntBytes(span.typIndex)
                   THEN HeapBitsStore(st, typAddr, IntBytes(span.typIndex))
                   ELSE st
             s2 == HeapBitsStore(s1, typAddr + intSize, <<typ.kind>>)
             s3 == HeapBitsStore(s2, typAddr + 16, IntBytes(typ.size))
             s4 == HeapBitsStore(s3, typAddr + 24, IntBytes(typ.ptrdata))
             s5 == HeapBitsStore(s4, typAddr + 32,
                                 SubSeq(typ.gcdata, 1, numHeapTypeBytes(typ)))
         IN  HeapBitsPersist(s5, typAddr, numHeapTypeBytes(typ) + 32)
    ELSE LET logAddr == pmemHeapBitsAddr(addr)
         IN  HeapBitsPersist(HeapBitsStore(st, logAddr, heapBits),
                             logAddr, Len(heapBits))

(***************************************************************************)
(* func logHeapBits(addr uintptr, startByte, endByte *byte, typ *_type)    *)
(* heapBits are the bytes startByte .. endByte.                            *)
(***************************************************************************)
logHeapBits(st, span, addr, heapBits, typ) ==
    IF span.memtype # isPersistent THEN HeapBitsThrow(st)
    ELSE IF span.typIndex # 0
    THEN LET typAddr == pmemHeapBitsAddr(span.base)
             s1 == IF [i \in 1 .. intSize |-> Get(st.bits, typAddr + i - 1)]
                       # IntBytes(span.typIndex)
                   THEN HeapBitsStore(st, typAddr, IntBytes(span.typIndex))
                   ELSE st
             s2 == HeapBitsStore(s1, typAddr + intSize, <<typ.kind>>)
             s3 == HeapBitsStore(s2, typAddr + 16, IntBytes(typ.size))
             s4 == HeapBitsStore(s3, typAddr + 24, IntBytes(typ.ptrdata))
             s5 == HeapBitsStore(s4, typAddr + 32,
                                 SubSeq(typ.gcdata, 1, numHeapTypeBytes(typ)))
         IN  HeapBitsPersist(s5, typAddr, numHeapTypeBytes(typ) + 32)
    ELSE LET logAddr == pmemHeapBitsAddr(addr)
         IN  HeapBitsPersist(HeapBitsStore(st, logAddr, heapBits),
                             logAddr, Len(heapBits))

\* clearHeapBits without the test of the span's memtype.
clearHeapBitsAnySpan(st, span, addr, size) ==
    LET heapBitsAddr == pmemHeapBitsAddr(addr)
        numTypeBytes == size \div bytesPerBitmapByte
    IN  HeapBitsPersist(
            HeapBitsStore(st, heapBitsAddr, [i \in 1 .. numTypeBytes |-> 0]),
            heapBitsAddr, numTypeBytes)

(***************************************************************************)
(* func clearHeapBits(addr uintptr, size uintptr)                          *)
(***************************************************************************)
clearHeapBits(st, span, addr, size) ==
    IF span.memtype # isPersistent THEN HeapBitsThrow(st)
    ELSE LET heapBitsAddr == pmemHeapBitsAddr(addr)
             numTypeBytes == size \div bytesPerBitmapByte
         IN  HeapBitsPersist(
                 HeapBitsStore(st, heapBitsAddr,
                               [i \in 1 .. numTypeBytes |-> 0]),
                 heapBitsAddr, numTypeBytes)

NoObject == [span |-> MSpan(isNotPersistent, NoShape, 0, 0, 0), addr |-> 0,
             size |-> 0, typ |-> 0]

HeapBitsInit ==
    /\ typeBits = << >>
    /\ typeBitsDur = << >>
    /\ hbFatal = FALSE
    /\ hbLast = [op |-> "none", arg |-> NoObject, written |-> {},
                 persisted |-> {}]
    /\ typeBitsPrev = << >>
    /\ typeBitsPrevDur = << >>
    /\ hbOps = 0

HeapBitsApply(op, arg, r) ==
    /\ typeBits' = r.bits
    /\ typeBitsDur' = r.dur
    /\ hbFatal' = r.fatal
    /\ hbLast' = [op |-> op, arg |-> arg, written |-> r.written,
                  persisted |-> r.persisted]
    /\ typeBitsPrev' = typeBits
    /\ typeBitsPrevDur' = typeBitsDur
    /\ hbOps' = hbOps + 1

\* One process makes the calls: a throw in any logging routine ends it.
HeapBitsEnabled == ~hbFatal /\ ~spanFatal /\ hbOps < MaxHeapBitsOps

\* The allocator logs the heap type bits of an object it has just set.  A
\* span kept for one type holds objects of that type.
LogHeapBitsCall ==
    /\ HeapBitsEnabled
    /\ \E span \in HeapBitsSpans : \E addr \in ObjectsOf(span) :
       \E heapBits \in HeapBitsOf :
       \E ti \in (IF span.typIndex # 0 THEN {span.typIndex}
                  ELSE 1 .. Len(Types)) :
         HeapBitsApply("logHeapBits",
                       [span |-> span, addr |-> addr, size |-> Len(heapBits),
                        typ |-> ti],
                       logHeapBits(HeapBitsState, span, addr, heapBits,
                                   Types[ti]))

\* The collector clears the heap type bits of a freed object or span.
ClearHeapBitsCall ==
    /\ HeapBitsEnabled
    /\ \E span \in HeapBitsSpans : \E addr \in ObjectsOf(span) :
       \E size \in ClearSizes :
         HeapBitsApply("clearHeapBits",
                       [span |-> span, addr |-> addr, size |-> size,
                        typ |-> 0],
                       clearHeapBits(HeapBitsState, span, addr, size))

\* logSpanAlloc called for a span that is not in persistent memory.
LogVolatileSpanAlloc ==
    /\ HeapBitsEnabled
    /\ \E s \in VolatileSpans :
         LET r == logSpanAlloc(SpanState, s)
         IN  /\ SpanApply(IF r.fatal THEN "throwInvalid" ELSE "alloc",
                          spanLogAddr(s), spanLogValue(s), r)
             /\ UNCHANGED hist

\* logSpanFree called for a span that is not in persistent memory.
LogVolatileSpanFree ==
    /\ HeapBitsEnabled
    /\ \E s \in VolatileSpans :
         LET r == logSpanFree(SpanState, s)
         IN  /\ SpanApply(IF r.fatal THEN "throwInvalid" ELSE "free",
                          spanLogAddr(s), 0, r)
             /\ UNCHANGED hist

(***************************************************************************)
(* The logs of the region that PmallocInit set up: logSpanAlloc,           *)
(* logSpanFree and logHeapBits as they index the windows                   *)
(* pmemInfo.spanBitmap and pmemInfo.typeBitmap.  Each log is kept as the   *)
(* entries that are not zero, by their index.  These routines do not flush *)
(* what they write.                                                        *)
(***************************************************************************)
\* Bound of the model of the region's logs: the calls followed.
MaxRegionOps == 3

\* uintptr is taken to have this many bits, and every address is below
\* 2^(uintptrBits - 1).
uintptrBits == 30

VARIABLES
    regSpanBitmap,  \* pmemInfo.spanBitmap[index], where not zero
    regTypeBitmap,  \* the bytes from pmemInfo.typeBitmap[0] on, where not zero
    regFatal,       \* the process was ended by throw or by an index panic
    regLast,        \* the last call, with the entries it stored
    regSpanPrev,    \* regSpanBitmap before the last call
    regTypePrev,    \* regTypeBitmap before the last call
    regOps          \* calls made

regVars == <<regSpanBitmap, regTypeBitmap, regFatal, regLast, regSpanPrev,
             regTypePrev, regOps>>

\* a - b in uintptr
USub(a, b) == (a - b + 2 ^ uintptrBits) % (2 ^ uintptrBits)

\* pmemInfo after PmallocInit(FName, size, offset) returned the mapping.
ReadyInfo(size, offset) ==
    LET l == Layout(size, offset)
        pmemMappedAddr == growPmemRegion(l.totalPages, l.reservePages, "ok")
        spanBits == pmemMappedAddr + spanBitsAddr(offset)
        typeEntries == Shl(l.usablePages, pageShift) \div 32
        typeBitsAddr == spanBits + l.spanBitmapSize
        startAddr == pmemMappedAddr + Shl(l.reservePages, pageShift)
    IN  [fname |-> FName, initState |-> initDone,
         spanBitmap |-> [addr |-> spanBits, len |-> l.usablePages],
         typeBitmap |-> [addr |-> typeBitsAddr, len |-> typeEntries],
         startAddr |-> startAddr,
         endAddr |-> startAddr + Shl(l.usablePages, pageShift) - 1]

\* The arguments of the calls of PmallocInit that succeed.
ReadyArgs == {a \in Sizes \X Offsets : ValidArgs(a[1], a[2])}

\* The state in which PmallocInit(FName, size, offset), the first call of the
\* first process, has set up a new region and returned, with the header
\* written back to the file.
PmemReady(size, offset) ==
    LET l == Layout(size, offset)
        info == ReadyInfo(size, offset)
        run == [set |-> TRUE, size |-> size, offset |-> offset,
                firstTime |-> TRUE, start |-> info.startAddr - mappedAddr,
                end |-> info.endAddr - mappedAddr, gen |-> 0]
    IN  /\ pmemInfo = info
        /\ pc = [c \in Callers |-> "idle"]
        /\ loc = [c \in Callers |-> NoLoc]
        /\ hdrMem = [w \in HdrWords |->
                        IF w = magicAddr(offset) THEN pmemHdrMagic
                        ELSE IF w = sizeAddr(offset) THEN size ELSE 0]
        /\ hdrDur = hdrMem
        /\ mapped = TRUE
        /\ initLast = [op |-> "success", c |-> 1]
        /\ initPrev = [info EXCEPT !.initState = initOngoing]
        /\ tally = [wins |-> 1, fails |-> 0, succ |-> 1]
        /\ ftSize = [o \in HdrOffsets |-> IF o = offset THEN size ELSE 0]
        /\ initCalls = 1
        /\ crashes = 0
        /\ heapFree = growPmemSpan(mappedAddr, l.totalPages, l.reservePages)
        /\ initHist = [args |-> NoArgs, ret |-> mappedAddr,
                       prev |-> NoBefore, first |-> run, last |-> run]

\* The addresses passed to the logging routines: in the region at its two
\* ends, and outside of it below and above.
PageAddrs(info) ==
    {a \in {0, info.startAddr - pageSize, info.startAddr,
            info.startAddr + pageSize, info.endAddr + 1 - pageSize,
            info.endAddr + 1, info.endAddr + 1 + pageSize} : a >= 0}

ObjectAddrs(info) ==
    {a \in {0, info.startAddr - 32, info.startAddr - 1, info.startAddr,
            info.startAddr + 32, info.endAddr - 31, info.endAddr,
            info.endAddr + 1, info.endAddr + 32} : a >= 0}

\* The spans passed to logSpanAlloc and logSpanFree.
RegionSpan(p, base, sh, nz) ==
    [persistent |-> p, base |-> base, spanclass |-> sh.spanclass,
     elemsize |-> sh.elemsize, needzero |-> nz]

RegionShapes ==
    {[spanclass |-> 2, elemsize |-> 8],
     [spanclass |-> 0, elemsize |-> minLargePages * pageSize]}

RegionSpans(info) ==
    {RegionSpan(p, b, sh, nz) :
        p \in {isPersistent, isNotPersistent}, b \in PageAddrs(info),
        sh \in RegionShapes, nz \in {0, 1}}

\* The logs as the logging routines see them, with the entries the call
\* stored to.
RegionState ==
    [spanBitmap |-> regSpanBitmap, typeBitmap |-> regTypeBitmap,
     fatal |-> regFatal, spanStored |-> {}, typeStored |-> {}]

RegionThrow(st) == [st EXCEPT !.fatal = TRUE]

\* atomic.Store(&pmemInfo.spanBitmap[index], v)
RegionSpanStore(st, index, v) ==
    [st EXCEPT !.spanBitmap = Put(st.spanBitmap, index, <<v>>),
               !.spanStored = @ \cup {index}]

(***************************************************************************)
(* func spanLogValue(s *mspan) uint32, as it was for these routines        *)
(***************************************************************************)
regionSpanLogValue(s) ==
    IF s.elemsize > maxSmallSize
    THEN LET npages == Shr(s.elemsize, pageShift)
         IN  BitOr(BitOr(Shl(66 + npages - 4, 2), Shl(s.spanclass, 1)),
                   s.needzero)
    ELSE BitOr(Shl(s.spanclass, 1), s.needzero)

(***************************************************************************)
(* func inPmem(addr uintptr) bool                                          *)
(***************************************************************************)
inPmem(info, addr) == addr >= info.startAddr /\ addr <= info.endAddr

(***************************************************************************)
(* func logSpanAlloc(s *mspan), on pmemInfo.spanBitmap.  Indexing the      *)
(* slice with an index that is not below its length panics, which ends the *)
(* process.                                                                *)
(***************************************************************************)
regionLogSpanAlloc(info, st, s) ==
    IF s.persistent = isNotPersistent THEN RegionThrow(st)
    ELSE
      LET index == Shr(USub(s.base, info.startAddr), pageShift)
          logVal == regionSpanLogValue(s)
      IN  IF index >= info.spanBitmap.len THEN RegionThrow(st)
          ELSE LET bitmapVal == Get(st.spanBitmap, index)
               IN  IF bitmapVal # 0 /\ Shr(bitmapVal, 1) # Shr(logVal, 1)
                   THEN RegionThrow(st)
                   ELSE IF bitmapVal # 0 /\ bitmapVal % 2 = logVal % 2
                   THEN st
                   ELSE RegionSpanStore(st, index, logVal)

\* logSpanFree storing through a pointer that is not checked.
regionLogSpanFreeUnchecked(info, st, s) ==
    IF s.persistent = isNotPersistent THEN RegionThrow(st)
    ELSE RegionSpanStore(st, Shr(USub(s.base, info.startAddr), pageShift), 0)

(***************************************************************************)
(* func logSpanFree(s *mspan), on pmemInfo.spanBitmap                      *)
(***************************************************************************)
regionLogSpanFree(info, st, s) ==
    IF s.persistent = isNotPersistent THEN RegionThrow(st)
    ELSE
      LET index == Shr(USub(s.base, info.startAddr), pageShift)
      IN  IF index >= info.spanBitmap.len THEN RegionThrow(st)
          ELSE RegionSpanStore(st, index, 0)

(***************************************************************************)
(* func logHeapBits(addr uintptr, startByte, endByte *byte), on            *)
(* pmemInfo.typeBitmap.  heapBits are the bytes startByte .. endByte; the  *)
(* first byte is stored through the slice, the others through add1.        *)
(***************************************************************************)
regionLogHeapBits(info, st, addr, heapBits) ==
    IF Len(heapBits) = 0 THEN RegionThrow(st)
    ELSE IF ~inPmem(info, addr) THEN RegionThrow(st)
    ELSE
      LET offset == USub(addr, info.startAddr) \div 32
      IN  IF offset >= info.typeBitmap.len THEN RegionThrow(st)
          ELSE [st EXCEPT !.typeBitmap = Put(st.typeBitmap, offset, heapBits),
                          !.typeStored =
                              @ \cup (offset .. (offset + Len(heapBits) - 1))]

NoRegionCall == [addr |-> 0, persistent |-> isNotPersistent]

RegionLogInit ==
    /\ regSpanBitmap = << >>
    /\ regTypeBitmap = << >>
    /\ regFatal = FALSE
    /\ regLast = [op |-> "none", arg |-> NoRegionCall, spanStored |-> {},
                  typeStored |-> {}]
    /\ regSpanPrev = << >>
    /\ regTypePrev = << >>
    /\ regOps = 0

RegionApply(op, arg, r) ==
    /\ regSpanBitmap' = r.spanBitmap
    /\ regTypeBitmap' = r.typeBitmap
    /\ regFatal' = r.fatal
    /\ regLast' = [op |-> op, arg |-> arg, spanStored |-> r.spanStored,
                   typeStored |-> r.typeStored]
    /\ regSpanPrev' = regSpanBitmap
    /\ regTypePrev' = regTypeBitmap
    /\ regOps' = regOps + 1

RegionEnabled == ~regFatal /\ regOps < MaxRegionOps

RegionLogSpanAllocCall ==
    /\ RegionEnabled
    /\ \E s \in RegionSpans(pmemInfo) :
         RegionApply("logSpanAlloc",
                     [addr |-> s.base, persistent |-> s.persistent],
                     regionLogSpanAlloc(pmemInfo, RegionState, s))

RegionLogSpanFreeCall ==
    /\ RegionEnabled
    /\ \E s \in RegionSpans(pmemInfo) :
         RegionApply("logSpanFree",
                     [addr |-> s.base, persistent |-> s.persistent],
                     regionLogSpanFree(pmemInfo, RegionState, s))

RegionLogHeapBitsCall ==
    /\ RegionEnabled
    /\ \E addr \in ObjectAddrs(pmemInfo) : \E heapBits \in HeapBitsOf :
         RegionApply("logHeapBits",
                     [addr |-> addr, persistent |-> isPersistent],
                     regionLogHeapBits(pmemInfo, RegionState, addr, heapBits))

(***************************************************************************)
(* The undo log across crashes.  A transaction logs one or two header      *)
(* fields with logEntry, writes them, and calls commitLog; the routines    *)
(* are followed from one store or PersistRange to the next.  A word the    *)
(* process has stored reaches the durable image when it is persisted, or   *)
(* earlier, at a time the process does not choose.  After a crash the      *)
(* arena is what the durable image holds, and recovery calls revertLog     *)
(* when numLogEntries is not 0.                                            *)
(***************************************************************************)
\* Bounds of the model of crashes: the transactions begun and the crashes.
MaxTransactions == 2
MaxUndoCrashes == 2

VARIABLES
    upc,          \* where the process is: the routine's next step, and the
                  \* routine's local variables k (field of the
                  \* transaction), ind, val, i and addr
    txh,          \* the transaction begun last: the fields logged, their
                  \* values before and after, what logEntry was to record,
                  \* the calls of logEntry that returned, and where the
                  \* process was at the last crash since
    txCount,      \* transactions begun
    undoCrashes   \* crashes so far

crashVars == <<upc, txh, txCount, undoCrashes>>

\* The header fields a transaction may log.
Fields == 0 .. (NumFields - 1)

\* The fields of a transaction, in the order they are logged.
TxFields == {<<f>> : f \in Fields} \cup {<<f, g>> : f \in Fields, g \in Fields}

At(at) == [at |-> at, k |-> 1, ind |-> 0, val |-> 0, i |-> 0, addr |-> 0]

NoTxh == [set |-> FALSE, fields |-> << >>, pre |-> [f \in Fields |-> 0],
          post |-> [f \in Fields |-> 0], entries |-> << >>, returned |-> 0,
          crashAt |-> "none"]

CrashInit ==
    /\ upc = At("idle")
    /\ txh = NoTxh
    /\ txCount = 0
    /\ undoCrashes = 0

\* The arena after a step of a routine.
ArenaStep(r) ==
    /\ mem' = r.mem
    /\ dur' = r.dur
    /\ wild' = r.wild
    /\ fatal' = r.fatal
    /\ UNCHANGED <<lastOp, prevMem, prevDur, tx, undoOps>>

Running == ~fatal

\* The caller begins a transaction on one or two fields, each to be given
\* the value after the one it has.
BeginTx ==
    /\ Running /\ upc.at = "idle"
    /\ txCount < MaxTransactions
    /\ txCount' = txCount + 1
    /\ \E fields \in TxFields :
         txh' = [NoTxh EXCEPT
                    !.set = TRUE, !.fields = fields,
                    !.pre = [f \in Fields |-> mem[f]],
                    !.post = [f \in Fields |->
                                 IF \E j \in 1 .. Len(fields) : fields[j] = f
                                 THEN (mem[f] + 1) % (MaxVal + 1)
                                 ELSE mem[f]]]
    /\ upc' = At("logEntry")
    /\ UNCHANGED <<undoVars, undoCrashes>>

\* logEntry: the tests, ind := pa.numLogEntries, val := *addr, and
\* pa.logs[ind].off = off
LogEntryStoreOff ==
    /\ Running /\ upc.at = "logEntry"
    /\ LET addr == txh.fields[upc.k]
           ind == NumLog(PaState)
       IN  IF addr >= ArenaWords \/ ind \notin 0 .. (maxLogEntries - 1)
           THEN /\ ArenaStep(Throw(PaState))
                /\ UNCHANGED <<upc, txh>>
           ELSE /\ ArenaStep(Store(PaState, LogOffAddr(ind), addr))
                /\ upc' = [upc EXCEPT !.at = "logEntryVal", !.ind = ind,
                                      !.val = mem[addr]]
                /\ txh' = [txh EXCEPT !.entries =
                               Append(@, [off |-> addr, val |-> mem[addr]])]
    /\ UNCHANGED <<txCount, undoCrashes>>

\* pa.logs[ind].val = val
LogEntryStoreVal ==
    /\ Running /\ upc.at = "logEntryVal"
    /\ ArenaStep(Store(PaState, LogValAddr(upc.ind), upc.val))
    /\ upc' = [upc EXCEPT !.at = "logEntryPersist"]
    /\ UNCHANGED <<txh, txCount, undoCrashes>>

\* logEntry that does not persist the entry.
logEntryEntryNotPersisted(pa, ind) == pa

\* PersistRange(unsafe.Pointer(&pa.logs[ind]), logEntrySize)
logEntryPersistEntry(pa, ind) ==
    PersistRange(pa, LogOffAddr(ind), logEntrySize)

LogEntryPersistEntry ==
    /\ Running /\ upc.at = "logEntryPersist"
    /\ ArenaStep(logEntryPersistEntry(PaState, upc.ind))
    /\ upc' = [upc EXCEPT !.at = "logEntryCount"]
    /\ UNCHANGED <<txh, txCount, undoCrashes>>

\* pa.numLogEntries = ind + 1
LogEntryStoreCount ==
    /\ Running /\ upc.at = "logEntryCount"
    /\ ArenaStep(Store(PaState, numLogEntriesOff, upc.ind + 1))
    /\ upc' = [upc EXCEPT !.at = "logEntryPersistCount"]
    /\ UNCHANGED <<txh, txCount, undoCrashes>>

\* PersistRange(unsafe.Pointer(&pa.numLogEntries), intSize), and the return
\* to the caller, which logs its next field or begins to write.
LogEntryPersistCount ==
    /\ Running /\ upc.at = "logEntryPersistCount"
    /\ ArenaStep(PersistRange(PaState, numLogEntriesOff, 1))
    /\ upc' = IF upc.k < Len(txh.fields)
              THEN [At("logEntry") EXCEPT !.k = upc.k + 1]
              ELSE At("mutate")
    /\ txh' = [txh EXCEPT !.returned = @ + 1]
    /\ UNCHANGED <<txCount, undoCrashes>>

\* The caller writes a field it has logged.
MutateLogged ==
    /\ Running /\ upc.at = "mutate"
    /\ LET f == txh.fields[upc.k]
       IN  ArenaStep(Store(PaState, f, txh.post[f]))
    /\ upc' = IF upc.k < Len(txh.fields)
              THEN [upc EXCEPT !.k = upc.k + 1]
              ELSE At("commitLog")
    /\ UNCHANGED <<txh, txCount, undoCrashes>>

\* commitLog that does not persist the fields.
commitLogFieldNotPersisted(pa, addr) == pa

\* PersistRange(unsafe.Pointer(addr), intSize) in the loop of commitLog
commitLogPersistField(pa, addr) == PersistRange(pa, addr, 1)

\* commitLog: one turn of the loop, or after the loop pa.numLogEntries = 0
CommitLogStep ==
    /\ Running /\ upc.at = "commitLog"
    /\ IF upc.i < NumLog(PaState)
       THEN IF upc.i >= maxLogEntries
            THEN /\ ArenaStep(Throw(PaState))
                 /\ UNCHANGED upc
            ELSE /\ ArenaStep(commitLogPersistField(PaState,
                                                    mem[LogOffAddr(upc.i)]))
                 /\ upc' = [upc EXCEPT !.i = upc.i + 1]
       ELSE /\ ArenaStep(Store(PaState, numLogEntriesOff, 0))
            /\ upc' = At("commitLogPersistCount")
    /\ UNCHANGED <<txh, txCount, undoCrashes>>

\* PersistRange(unsafe.Pointer(&pa.numLogEntries), intSize), and the return
CommitLogPersistCount ==
    /\ Running /\ upc.at = "commitLogPersistCount"
    /\ ArenaStep(PersistRange(PaState, numLogEntriesOff, 1))
    /\ upc' = At("idle")
    /\ UNCHANGED <<txh, txCount, undoCrashes>>

\* A word the process stored reaches the durable image.
UndoWriteBack ==
    /\ Running
    /\ \E w \in Words :
         /\ mem[w] # dur[w]
         /\ dur' = [dur EXCEPT ![w] = mem[w]]
    /\ UNCHANGED <<mem, wild, fatal, lastOp, prevMem, prevDur, tx, undoOps>>
    /\ UNCHANGED crashVars

\* The process ends at any point; the next one finds the durable image and
\* begins recovery.
UndoCrash ==
    /\ Running
    /\ undoCrashes < MaxUndoCrashes
    /\ undoCrashes' = undoCrashes + 1
    /\ mem' = dur
    /\ upc' = At("recover")
    /\ txh' = [txh EXCEPT !.crashAt = upc.at]
    /\ UNCHANGED <<dur, wild, fatal, lastOp, prevMem, prevDur, tx, undoOps>>
    /\ UNCHANGED txCount

\* Recovery: revertLog is called when numLogEntries is not 0.
RecoverStart ==
    /\ Running /\ upc.at = "recover"
    /\ upc' = IF NumLog(PaState) = 0 THEN At("idle") ELSE At("revertLog")
    /\ UNCHANGED <<undoVars, txh, txCount, undoCrashes>>

\* revertLog: *ai = pa.logs[i].val in one turn of the loop, or after the
\* loop pa.numLogEntries = 0
RevertLogStep ==
    /\ Running /\ upc.at = "revertLog"
    /\ IF upc.i < NumLog(PaState)
       THEN IF upc.i >= maxLogEntries
            THEN /\ ArenaStep(Throw(PaState))
                 /\ UNCHANGED upc
            ELSE /\ ArenaStep(Store(PaState, mem[LogOffAddr(upc.i)],
                                    mem[LogValAddr(upc.i)]))
                 /\ upc' = [upc EXCEPT !.at = "revertLogPersist",
                                       !.addr = mem[LogOffAddr(upc.i)]]
       ELSE /\ ArenaStep(Store(PaState, numLogEntriesOff, 0))
            /\ upc' = At("revertLogPersistCount")
    /\ UNCHANGED <<txh, txCount, undoCrashes>>

\* PersistRange(addr, intSize) in the loop of revertLog
RevertLogPersistField ==
    /\ Running /\ upc.at = "revertLogPersist"
    /\ ArenaStep(PersistRange(PaState, upc.addr, 1))
    /\ upc' = [upc EXCEPT !.at = "revertLog", !.i = upc.i + 1, !.addr = 0]
    /\ UNCHANGED <<txh, txCount, undoCrashes>>

\* PersistRange(unsafe.Pointer(&pa.numLogEntries), intSize), and the return
RevertLogPersistCount ==
    /\ Running /\ upc.at = "revertLogPersistCount"
    /\ ArenaStep(PersistRange(PaState, numLogEntriesOff, 1))
    /\ upc' = At("idle")
    /\ UNCHANGED <<txh, txCount, undoCrashes>>

(***************************************************************************)
(* The span log across crashes.  An entry is one aligned 32-bit word: what *)
(* atomic.Store wrote reaches the durable image whole, when a fence        *)
(* follows its flush or earlier, at a time the process does not choose.    *)
(* spanSince keeps, for every entry, the values it has held since it was   *)
(* last durable for certain; spanFlushedPrev is spanFlushed before the     *)
(* last call.                                                              *)
(***************************************************************************)
VARIABLES
    spanSince,        \* per entry, the values held since it was last fenced
    spanFlushedPrev   \* spanFlushed before the last call

spanCrashVars == <<spanSince, spanFlushedPrev>>

SpanCrashInit ==
    /\ spanSince = [p \in Pages |-> {0}]
    /\ spanFlushedPrev = {}

\* What a call of a logging routine or a fence leaves in the history.
SpanTrack ==
    /\ spanFlushedPrev' = spanFlushed
    /\ spanSince' = [p \in Pages |->
                        IF p \in spanFlushed'
                        THEN spanSince[p] \cup {spanBitmap'[p]}
                        ELSE {spanBitmap'[p]}]

\* The spans followed across crashes: small spans of one class, allocated
\* again with another needzero or another typIndex.
TrackedSpans ==
    {MSpan(isPersistent, [spanclass |-> 2, elemsize |-> 8], pg, nz, ti) :
        pg \in Pages, nz \in {0, 1}, ti \in TypIndexes}

LogSpanAllocTracked ==
    /\ SpanEnabled
    /\ \E s \in TrackedSpans :
         LET r == logSpanAlloc(SpanState, s)
         IN  SpanApply(IF r.fatal THEN "throwMismatch" ELSE "alloc",
                       spanLogAddr(s), spanLogValue(s), r)
    /\ UNCHANGED hist
    /\ SpanTrack

LogSpanFreeTracked ==
    /\ SpanEnabled
    /\ \E s \in TrackedSpans :
         LET r == logSpanFree(SpanState, s)
         IN  SpanApply(IF r.fatal THEN "throwInvalid" ELSE "free",
                       spanLogAddr(s), 0, r)
    /\ UNCHANGED hist
    /\ SpanTrack

\* The fence at the end of an allocation.
FenceTracked == FenceCall /\ SpanTrack

\* An entry the process stored reaches the durable image.
SpanWriteBack ==
    /\ ~spanFatal
    /\ \E p \in Pages :
         /\ spanDur[p] # spanBitmap[p]
         /\ spanDur' = [spanDur EXCEPT ![p] = spanBitmap[p]]
    /\ UNCHANGED <<spanBitmap, spanFlushed, spanFatal, spanLast, spanPrev,
                   spanPrevDur, hist, spanOps>>
    /\ UNCHANGED spanCrashVars

(***************************************************************************)
(* The span log under threads.  Every thread allocates and frees the span  *)
(* of one page, so that the spans of two threads do not overlap and one    *)
(* call at most is in progress on a span; a reader loads entries at any    *)
(* time.  logSpanAlloc and logSpanFree are followed from one access of the *)
(* span log to the next.                                                   *)
(***************************************************************************)
\* Bound of the model of threads: the calls each thread makes.
MaxThreadCalls == 2

VARIABLES
    tpc,        \* per thread: where it is in its call, its span s, and the
                \* locals logVal and bitmapVal
    tcalls,     \* per thread, the calls it has begun
    alone,      \* per entry, what its thread's calls leave when run alone
    issued,     \* per entry, the values spanLogValue gave for its spans
    observed    \* the entry the reader loaded last, and the value it saw

concVars == <<tpc, tcalls, alone, issued, observed>>

\* A thread is named by the page of its span.
Threads == Pages

\* The spans of the thread of page t: spans of one page, of two classes.
ThreadSpans(t) ==
    {MSpan(isPersistent, sh, t, nz, 0) :
        sh \in {[spanclass |-> 2, elemsize |-> 8],
                [spanclass |-> 4, elemsize |-> 16]},
        nz \in {0, 1}}

NoSpanArg == MSpan(isPersistent, NoShape, 0, 0, 0)
Idle == [at |-> "idle", s |-> NoSpanArg, logVal |-> 0, bitmapVal |-> 0]

ConcInit ==
    /\ tpc = [t \in Threads |-> Idle]
    /\ tcalls = [t \in Threads |-> 0]
    /\ alone = [p \in Pages |-> 0]
    /\ issued = [p \in Pages |-> {}]
    /\ observed = [page |-> 0, val |-> 0]

\* The span log after a step of a call.
ConcStep(r) ==
    /\ spanBitmap' = r.bitmap
    /\ spanDur' = r.dur
    /\ spanFlushed' = r.flushed
    /\ spanFatal' = r.fatal
    /\ UNCHANGED <<spanLast, spanPrev, spanPrevDur, hist, spanOps>>

\* The entry that a thread's calls leave when no other thread runs.
AloneState(t) ==
    [bitmap |-> [p \in Pages |-> IF p = t THEN alone[t] ELSE 0],
     dur |-> [p \in Pages |-> 0], flushed |-> {}, fatal |-> FALSE,
     stored |-> FALSE, didFlush |-> FALSE]

\* logSpanAlloc(s) is called: the test of s.memtype, logAddr and logVal.
LogSpanAllocBegin(t) ==
    /\ ~spanFatal /\ tpc[t].at = "idle"
    /\ tcalls[t] < MaxThreadCalls
    /\ tcalls' = [tcalls EXCEPT ![t] = @ + 1]
    /\ \E s \in ThreadSpans(t) :
         /\ tpc' = [tpc EXCEPT ![t] = [at |-> "allocRead", s |-> s,
                                       logVal |-> spanLogValue(s),
                                       bitmapVal |-> 0]]
         /\ alone' = [alone EXCEPT
                         ![t] = logSpanAlloc(AloneState(t), s).bitmap[t]]
         /\ issued' = [issued EXCEPT ![t] = @ \cup {spanLogValue(s)}]
    /\ UNCHANGED <<spanVars, observed>>

\* bitmapVal := *logAddr and the comparisons with logVal
LogSpanAllocRead(t) ==
    /\ ~spanFatal /\ tpc[t].at = "allocRead"
    /\ LET bitmapVal == spanBitmap[spanLogAddr(tpc[t].s)]
           logVal == tpc[t].logVal
       IN  IF bitmapVal # 0 /\ Shr(bitmapVal, 2) # Shr(logVal, 2)
           THEN /\ ConcStep(SpanThrow(SpanState))
                /\ UNCHANGED tpc
           ELSE IF bitmapVal # 0 /\ bitmapVal % 4 = logVal % 4
           THEN /\ tpc' = [tpc EXCEPT ![t] = Idle]
                /\ UNCHANGED spanVars
           ELSE /\ tpc' = [tpc EXCEPT ![t].at = "allocStore",
                                      ![t].bitmapVal = bitmapVal]
                /\ UNCHANGED spanVars
    /\ UNCHANGED <<tcalls, alone, issued, observed>>

\* atomic.Store(logAddr, logVal)
LogSpanAllocStore(t) ==
    /\ ~spanFatal /\ tpc[t].at = "allocStore"
    /\ ConcStep(AtomicStore(SpanState, spanLogAddr(tpc[t].s), tpc[t].logVal))
    /\ tpc' = [tpc EXCEPT ![t].at = "allocFlush"]
    /\ UNCHANGED <<tcalls, alone, issued, observed>>

\* FlushRange(unsafe.Pointer(logAddr), unsafe.Sizeof(*logAddr)), and the
\* return
LogSpanAllocFlush(t) ==
    /\ ~spanFatal /\ tpc[t].at = "allocFlush"
    /\ ConcStep(FlushRange(SpanState, spanLogAddr(tpc[t].s)))
    /\ tpc' = [tpc EXCEPT ![t] = Idle]
    /\ UNCHANGED <<tcalls, alone, issued, observed>>

\* logSpanFree(s) is called: the test of s.memtype, logAddr, and
\* atomic.Store(logAddr, 0)
LogSpanFreeStore(t) ==
    /\ ~spanFatal /\ tpc[t].at = "idle"
    /\ tcalls[t] < MaxThreadCalls
    /\ tcalls' = [tcalls EXCEPT ![t] = @ + 1]
    /\ \E s \in ThreadSpans(t) :
         /\ s.needzero = 0 /\ s.typIndex = 0
         /\ ConcStep(AtomicStore(SpanState, spanLogAddr(s), 0))
         /\ tpc' = [tpc EXCEPT ![t] = [at |-> "freePersist", s |-> s,
                                       logVal |-> 0, bitmapVal |-> 0]]
         /\ alone' = [alone EXCEPT
                         ![t] = logSpanFree(AloneState(t), s).bitmap[t]]
    /\ UNCHANGED <<issued, observed>>

\* PersistRange(unsafe.Pointer(logAddr), unsafe.Sizeof(*logAddr)), and the
\* return
LogSpanFreePersist(t) ==
    /\ ~spanFatal /\ tpc[t].at = "freePersist"
    /\ ConcStep(PersistEntry(SpanState, spanLogAddr(tpc[t].s)))
    /\ tpc' = [tpc EXCEPT ![t] = Idle]
    /\ UNCHANGED <<tcalls, alone, issued, observed>>

\* The reader loads an entry.
ReadEntry ==
    /\ \E p \in Pages :
         /\ observed # [page |-> p, val |-> spanBitmap[p]]
         /\ observed' = [page |-> p, val |-> spanBitmap[p]]
    /\ UNCHANGED <<spanVars, tpc, tcalls, alone, issued>>

(***************************************************************************)
(* spanLogValue as an encoding: two valid spans are given and each is      *)
(* encoded.                                                                *)
(***************************************************************************)
VARIABLES
    encSpans,   \* the two spans
    encVals     \* their values, once spanLogValue has been applied

encVars == <<encSpans, encVals>>

\* The most pages of a large span that are followed: its size in bytes is
\* below 2^31.
maxLargePagesFollowed == 2 ^ 18 - 1

\* The valid spans: small spans have a span class in 2 .. 133 and elements
\* of at most maxSmallSize bytes, large spans have span class 0 or 1 and one
\* element of 5 pages or more.
ValidSmallSpans ==
    {MSpan(isPersistent, [spanclass |-> c, elemsize |-> e], 0, nz, ti) :
        c \in {2, 3, 132, 133}, e \in {8, maxSmallSize}, nz \in {0, 1},
        ti \in TypIndexes}
ValidLargeSpans ==
    {MSpan(isPersistent, [spanclass |-> c, elemsize |-> n * pageSize], 0, nz,
           ti) :
        c \in {0, 1},
        n \in (minLargePages .. (minLargePages + ExtraLargePages))
                  \cup {maxLargePagesFollowed},
        nz \in {0, 1}, ti \in TypIndexes}
ValidSpans == ValidSmallSpans \cup ValidLargeSpans

NotEncoded == <<-1, -1>>

EncodeInit ==
    /\ encSpans \in ValidSpans \X ValidSpans
    /\ encVals = NotEncoded

\* spanLogValue is applied to both spans.
Encode ==
    /\ encVals = NotEncoded
    /\ encVals' = <<spanLogValue(encSpans[1]), spanLogValue(encSpans[2])>>
    /\ UNCHANGED encSpans

(***************************************************************************)
(* The specifications.  Each follows one component and leaves the others   *)
(* in their initial state.                                                 *)
(***************************************************************************)
vars == <<undoVars, spanVars, initVars, hbVars, regVars, crashVars, spanCrashVars, concVars, encVars>>

\* What the actions of one component leave alone.
notUndoVars == <<spanVars, initVars, hbVars, regVars, crashVars, spanCrashVars, concVars, encVars>>
notSpanVars == <<undoVars, initVars, hbVars, regVars, crashVars, spanCrashVars, concVars, encVars>>
notInitVars == <<undoVars, spanVars, hbVars, regVars, crashVars, spanCrashVars, concVars, encVars>>
notHeapBitsVars == <<undoVars, spanVars, initVars, regVars, crashVars, spanCrashVars, concVars, encVars>>
notLoggingVars == <<undoVars, initVars, regVars, crashVars, spanCrashVars, concVars, encVars>>
notRegionVars == <<undoVars, spanVars, initVars, hbVars, crashVars, spanCrashVars, concVars, encVars>>
notArenaVars == <<spanVars, initVars, hbVars, regVars, spanCrashVars, concVars, encVars>>

\* Every component before its first operation.
\* The components other than PmallocInit before their first operation.
InitOthers ==
    /\ UndoInit /\ SpanInit /\ HeapBitsInit /\ RegionLogInit /\ CrashInit
    /\ SpanCrashInit /\ ConcInit

\* No spans are given to be encoded.
EncodeIdle ==
    /\ encSpans = <<NoSpanArg, NoSpanArg>>
    /\ encVals = NotEncoded

InitAll == InitOthers /\ PmemInit /\ EncodeIdle

InitUndo == InitAll /\ undoOps = 0

NextUndo ==
    \/ LogEntryCall /\ UNCHANGED notUndoVars
    \/ MutateField /\ UNCHANGED notUndoVars
    \/ RevertLogCall /\ UNCHANGED notUndoVars
    \/ CommitLogCall /\ UNCHANGED notUndoVars
    \/ ResetLogCall /\ UNCHANGED notUndoVars

SpecUndo == InitUndo /\ [][NextUndo]_vars

InitSpan == InitAll /\ spanOps = 0

NextSpan ==
    \/ LogSpanAllocCall /\ UNCHANGED notSpanVars
    \/ LogSpanFreeCall /\ UNCHANGED notSpanVars
    \/ FenceCall /\ UNCHANGED notSpanVars

SpecSpan == InitSpan /\ [][NextSpan]_vars

InitPmem == InitAll /\ initCalls = 0

NextPmem ==
    \/ \E c \in Callers : PmallocInitCall(c) /\ UNCHANGED notInitVars
    \/ \E c \in Callers : MapRegion(c) /\ UNCHANGED notInitVars
    \/ \E c \in Callers : ReadHeader(c) /\ UNCHANGED notInitVars
    \/ \E c \in Callers : WriteSize(c) /\ UNCHANGED notInitVars
    \/ \E c \in Callers : WriteMagic(c) /\ UNCHANGED notInitVars
    \/ \E c \in Callers : InstallBitmaps(c) /\ UNCHANGED notInitVars
    \/ \E c \in Callers : Finish(c) /\ UNCHANGED notInitVars
    \/ WriteBack /\ UNCHANGED notInitVars
    \/ Crash /\ UNCHANGED notInitVars
    \/ Restart /\ UNCHANGED notInitVars

SpecInit == InitPmem /\ [][NextPmem]_vars

InitHeapBits == InitAll /\ hbOps = 0

NextHeapBits ==
    \/ LogHeapBitsCall /\ UNCHANGED notHeapBitsVars
    \/ ClearHeapBitsCall /\ UNCHANGED notHeapBitsVars
    \/ LogVolatileSpanAlloc /\ UNCHANGED <<notLoggingVars, hbVars>>
    \/ LogVolatileSpanFree /\ UNCHANGED <<notLoggingVars, hbVars>>

SpecHeapBits == InitHeapBits /\ [][NextHeapBits]_vars

\* The logging routines run before PmallocInit was called, or after a call
\* of it that succeeded.
InitRegionLog ==
    /\ InitOthers /\ EncodeIdle
    /\ \/ PmemInit
       \/ \E a \in ReadyArgs : PmemReady(a[1], a[2])

NextRegionLog ==
    \/ RegionLogSpanAllocCall /\ UNCHANGED notRegionVars
    \/ RegionLogSpanFreeCall /\ UNCHANGED notRegionVars
    \/ RegionLogHeapBitsCall /\ UNCHANGED notRegionVars

SpecRegionLog == InitRegionLog /\ [][NextRegionLog]_vars

InitUndoCrash == InitAll /\ txCount = 0

NextUndoCrash ==
    \/ BeginTx /\ UNCHANGED notArenaVars
    \/ LogEntryStoreOff /\ UNCHANGED notArenaVars
    \/ LogEntryStoreVal /\ UNCHANGED notArenaVars
    \/ LogEntryPersistEntry /\ UNCHANGED notArenaVars
    \/ LogEntryStoreCount /\ UNCHANGED notArenaVars
    \/ LogEntryPersistCount /\ UNCHANGED notArenaVars
    \/ MutateLogged /\ UNCHANGED notArenaVars
    \/ CommitLogStep /\ UNCHANGED notArenaVars
    \/ CommitLogPersistCount /\ UNCHANGED notArenaVars
    \/ UndoWriteBack /\ UNCHANGED notArenaVars
    \/ UndoCrash /\ UNCHANGED notArenaVars
    \/ RecoverStart /\ UNCHANGED notArenaVars
    \/ RevertLogStep /\ UNCHANGED notArenaVars
    \/ RevertLogPersistField /\ UNCHANGED notArenaVars
    \/ RevertLogPersistCount /\ UNCHANGED notArenaVars

SpecUndoCrash == InitUndoCrash /\ [][NextUndoCrash]_vars

notSpanLogVars == <<undoVars, initVars, hbVars, regVars, crashVars, concVars, encVars>>

InitSpanCrash == InitAll /\ spanFlushedPrev = {}

NextSpanCrash ==
    \/ LogSpanAllocTracked /\ UNCHANGED notSpanLogVars
    \/ LogSpanFreeTracked /\ UNCHANGED notSpanLogVars
    \/ FenceTracked /\ UNCHANGED notSpanLogVars
    \/ SpanWriteBack /\ UNCHANGED notSpanLogVars

SpecSpanCrash == InitSpanCrash /\ [][NextSpanCrash]_vars

notConcVars ==
    <<undoVars, initVars, hbVars, regVars, crashVars, spanCrashVars, encVars>>

InitSpanThreads == InitAll /\ tcalls = [t \in Threads |-> 0]

NextSpanThreads ==
    \/ \E t \in Threads : LogSpanAllocBegin(t) /\ UNCHANGED notConcVars
    \/ \E t \in Threads : LogSpanAllocRead(t) /\ UNCHANGED notConcVars
    \/ \E t \in Threads : LogSpanAllocStore(t) /\ UNCHANGED notConcVars
    \/ \E t \in Threads : LogSpanAllocFlush(t) /\ UNCHANGED notConcVars
    \/ \E t \in Threads : LogSpanFreeStore(t) /\ UNCHANGED notConcVars
    \/ \E t \in Threads : LogSpanFreePersist(t) /\ UNCHANGED notConcVars
    \/ ReadEntry /\ UNCHANGED notConcVars

SpecSpanThreads == InitSpanThreads /\ [][NextSpanThreads]_vars

notEncodeVars ==
    <<undoVars, spanVars, initVars, hbVars, regVars, crashVars,
      spanCrashVars, concVars>>

InitSpanValue == InitOthers /\ PmemInit /\ EncodeInit

NextSpanValue ==
    \/ Encode /\ UNCHANGED notEncodeVars

SpecSpanValue == InitSpanValue /\ [][NextSpanValue]_vars

(***************************************************************************)
(* Properties of the undo log.                                             *)
(***************************************************************************)
\* The fields logged in the transaction that the last operation closed.
TxTargets == {tx.targets[i] : i \in 1 .. Len(tx.targets)}

\* C1 (as stated): after a transaction of one or two logEntry calls, each
\* taken before the caller wrote that target, the targets being any words of
\* the arena, revertLog leaves every logged target with the value it had
\* before the first logEntry, and numLogEntries is 0.
C1_RevertRestoresAnyTarget ==
    (lastOp = "revert" /\ tx.ok /\ Len(tx.targets) \in 1 .. maxLogEntries)
        => /\ \A t \in TxTargets : mem[t] = tx.pre[t]
           /\ mem[numLogEntriesOff] = 0

\* C1 (amended): the same, for targets that are not words of the undo log
\* itself (numLogEntries and logs[]).
C1_RevertRestores ==
    (/\ lastOp = "revert"
     /\ tx.ok
     /\ Len(tx.targets) \in 1 .. maxLogEntries
     /\ TxTargets \cap LogWords = {})
        => /\ \A t \in TxTargets : mem[t] = tx.pre[t]
           /\ mem[numLogEntriesOff] = 0

\* A two-entry transaction on two different fields, both written by the
\* caller after being logged, has been reverted.
C1_Witness ==
    /\ lastOp = "revert"
    /\ tx.ok
    /\ Len(tx.targets) = 2
    /\ tx.targets[1] # tx.targets[2]
    /\ TxTargets \cap LogWords = {}
    /\ \A t \in TxTargets : prevMem[t] # tx.pre[t] /\ mem[t] = tx.pre[t]
    /\ prevMem[numLogEntriesOff] = 2

\* C2: commitLog and resetLog change no word of the arena except
\* numLogEntries, which they set to 0 and persist: a field written by the
\* caller keeps the written value, an unwritten field its current value.
C2_CommitResetFrame ==
    lastOp \in {"commit", "reset"}
        => /\ \A w \in Words \ {numLogEntriesOff} : mem[w] = prevMem[w]
           /\ mem[numLogEntriesOff] = 0
           /\ dur[numLogEntriesOff] = 0
           /\ ~wild

\* commitLog has closed a transaction in which the caller changed a logged
\* field, and the field holds the changed value.
C2_Witness ==
    /\ lastOp = "commit"
    /\ prevMem[numLogEntriesOff] > 0
    /\ \E t \in TxTargets \ LogWords : t \in tx.mutated /\ mem[t] # tx.pre[t]

\* C3 (as stated): numLogEntries is always within 0..2; a logEntry called
\* when it is 2 ends the process without changing an entry, the count or the
\* target; and the count goes back to 0 only by commitLog, revertLog or
\* resetLog.
C3_CountBoundedAnyTarget ==
    /\ mem[numLogEntriesOff] \in 0 .. maxLogEntries
    /\ lastOp = "logEntry" => prevMem[numLogEntriesOff] < maxLogEntries
    /\ lastOp = "throwFull" => fatal /\ mem = prevMem /\ dur = prevDur
    /\ (prevMem[numLogEntriesOff] # 0 /\ mem[numLogEntriesOff] = 0)
           => lastOp \in {"commit", "revert", "reset"}

\* C3 (amended): the same, as long as no logEntry has been given the address
\* of a word of the undo log itself (numLogEntries and logs[]).
C3_CountBounded ==
    ~tx.inLog
        => /\ mem[numLogEntriesOff] \in 0 .. maxLogEntries
           /\ lastOp = "logEntry" => prevMem[numLogEntriesOff] < maxLogEntries
           /\ lastOp = "throwFull" => fatal /\ mem = prevMem /\ dur = prevDur
           /\ (prevMem[numLogEntriesOff] # 0 /\ mem[numLogEntriesOff] = 0)
                  => lastOp \in {"commit", "revert", "reset"}

\* A third logEntry was refused.
C3_Witness ==
    /\ ~tx.inLog
    /\ lastOp = "throwFull"
    /\ fatal
    /\ prevMem[numLogEntriesOff] = maxLogEntries

(***************************************************************************)
(* Properties of the span log.  In a state left by a logging call,         *)
(* spanLast.page is the entry the call addressed and spanLast.val the      *)
(* value spanLogValue gave for its span.                                   *)
(***************************************************************************)
\* The last call was a logSpanAlloc of a persistent span whose entry held a
\* value already.
AllocOnUsedEntry ==
    /\ spanLast.op \in {"alloc", "throwMismatch"}
    /\ spanPrev[spanLast.page] # 0

\* The call left the span log as it was, in memory and in the durable image.
SpanLogUntouched ==
    /\ spanBitmap = spanPrev
    /\ spanDur = spanPrevDur
    /\ ~spanLast.stored
    /\ ~spanLast.didFlush

\* C4 (as stated): logSpanAlloc on an entry that holds a value ends the
\* process, leaving the entry as it was, whenever the new value differs from
\* it in any bit but the needzero bit (bit 0); only a difference in the
\* needzero bit is accepted.
C4_MismatchButNeedzeroIsFatal ==
    (AllocOnUsedEntry
     /\ Shr(spanPrev[spanLast.page], 1) # Shr(spanLast.val, 1))
        => spanLast.op = "throwMismatch" /\ spanFatal /\ SpanLogUntouched

\* C4 (amended): logSpanAlloc on an entry that holds a value ends the
\* process, leaving the log as it was, whenever the new value differs from it
\* above the low two bits (span class, and page count of a large span); a
\* difference in the needzero bit or the optimized-type flag is accepted and
\* the new value stored.
C4_MismatchAboveLowTwoIsFatal ==
    AllocOnUsedEntry =>
        IF Shr(spanPrev[spanLast.page], 2) # Shr(spanLast.val, 2)
        THEN spanLast.op = "throwMismatch" /\ spanFatal /\ SpanLogUntouched
        ELSE spanLast.op = "alloc" /\ ~spanFatal
             /\ spanBitmap[spanLast.page] = spanLast.val

\* A logSpanAlloc was refused because the page count of a large span
\* differed from the logged one.
C4_Witness ==
    /\ spanLast.op = "throwMismatch"
    /\ spanFatal
    /\ spanPrev[spanLast.page] # 0
    /\ Shr(spanPrev[spanLast.page], 3) # Shr(spanLast.val, 3)

\* The entries whose last logSpanAlloc came right after a logSpanFree that
\* had cleared an allocated entry, the two allocations being of spans with
\* the same span class and element size.
Reallocated ==
    {p \in Pages : /\ hist[p].last = "alloc"
                    /\ hist[p].afterFree
                    /\ hist[p].cur = hist[p].c1}

C6_ZeroMeansUnallocated ==
    /\ \A p \in Pages : (spanBitmap[p] = 0) <=> (hist[p].last \in {"none", "free"})
    /\ spanLast.op = "free" => spanBitmap[spanLast.page] = 0
    /\ spanLast.op = "alloc" => spanBitmap[spanLast.page] # 0

\* An allocated entry was freed while the other entry stays allocated.
C6_Witness ==
    \E p, q \in Pages :
        /\ hist[p].last = "free" /\ hist[p].a1 # 0 /\ spanBitmap[p] = 0
        /\ hist[q].last = "alloc" /\ spanBitmap[q] # 0

\* C7: a logSpanAlloc that finds in the entry the very value it would write
\* (non-zero, same upper bits, same needzero bit) stores nothing and flushes
\* nothing: the entry and the durable image are as before the call.
C7_AllocIdempotent ==
    (AllocOnUsedEntry /\ spanPrev[spanLast.page] = spanLast.val)
        => spanLast.op = "alloc" /\ ~spanFatal /\ SpanLogUntouched
           /\ spanBitmap[spanLast.page] = spanLast.val

\* logSpanAlloc was called twice in a row on an unchanged span.
C7_Witness ==
    /\ spanLast.op = "alloc"
    /\ spanPrev[spanLast.page] # 0
    /\ spanPrev[spanLast.page] = spanLast.val
    /\ hist[spanLast.page].last = "alloc"
    /\ ~hist[spanLast.page].afterFree

\* C8: a logSpanAlloc on an entry that holds a value and was not freed
\* changes it, if at all, in the low two bits only; a call that would change
\* a higher bit ends the process instead.
C8_UpperBitsStay ==
    AllocOnUsedEntry =>
        /\ Shr(spanBitmap[spanLast.page], 2) = Shr(spanPrev[spanLast.page], 2)
        /\ Shr(spanLast.val, 2) # Shr(spanPrev[spanLast.page], 2) => spanFatal
        /\ \A q \in Pages \ {spanLast.page} : spanBitmap[q] = spanPrev[q]

\* A logSpanAlloc changed the optimized-type flag of a logged entry.
C8_Witness ==
    /\ spanLast.op = "alloc"
    /\ spanPrev[spanLast.page] # 0
    /\ spanLast.stored
    /\ Shr(spanBitmap[spanLast.page], 1) % 2 # Shr(spanPrev[spanLast.page], 1) % 2

(***************************************************************************)
(* Properties of PmallocInit.  tally counts, since the process started,    *)
(* the calls that won the compare-and-swap, the winners that returned nil, *)
(* and the calls that returned the mapping.                                *)
(***************************************************************************)
\* The callers that are past the compare-and-swap and have not returned.
Initializing == {c \in Callers : pc[c] # "idle"}

\* C9 (as stated): at most one call wins the compare-and-swap of initState
\* from initNotDone to initOngoing; a call that loses it changes nothing of
\* pmemInfo; and once initState is initDone no call succeeds.
C9_OneCasWinner ==
    /\ tally.wins <= 1
    /\ initLast.op = "casLost" => pmemInfo = initPrev
    /\ initLast.op = "casWon" => initPrev.initState = initNotDone
    /\ tally.succ <= 1
    /\ tally.succ = 1 => pmemInfo.initState = initDone

\* C9 (amended): at most one call at a time is between a won
\* compare-and-swap and its return, and a further call wins only after an
\* earlier winner has failed and put initState back; a call that loses the
\* compare-and-swap changes nothing of pmemInfo; at most one call succeeds,
\* and once initState is initDone it stays so and no call succeeds.
C9_OneInitializerAtATime ==
    /\ Cardinality(Initializing) <= 1
    /\ (pmemInfo.initState = initOngoing) <=> (Initializing # {})
    /\ tally.wins <= tally.fails + 1
    /\ initLast.op = "casLost" => pmemInfo = initPrev
    /\ initLast.op = "casWon" => initPrev.initState = initNotDone
    /\ tally.succ <= 1
    /\ tally.succ = 1 => pmemInfo.initState = initDone

\* A call has just lost the compare-and-swap to a winner that is still
\* initializing.
C9_Witness ==
    /\ initLast.op = "casLost"
    /\ tally.wins = 1
    /\ Initializing # {}
    /\ pmemInfo.initState = initOngoing

\* C10: whenever a header's magic is on the backing store, so is the size
\* of the first-time initialization that wrote that magic.
C10_SizeDurableBeforeMagic ==
    \A o \in HdrOffsets :
        hdrDur[magicAddr(o)] = pmemHdrMagic => hdrDur[sizeAddr(o)] = ftSize[o]

\* C11: a successful call made in a later process than the first successful
\* first-time call, with the same size, is not a first-time call and gives
\* the same startAddr and endAddr relative to the mapping, whatever its
\* offset.
C11_SecondRunSameRange ==
    (/\ initLast.op = "success"
     /\ initHist.first.set
     /\ initHist.last.gen > initHist.first.gen
     /\ initHist.last.size = initHist.first.size)
        => /\ ~initHist.last.firstTime
           /\ initHist.last.start = initHist.first.start
           /\ initHist.last.end = initHist.first.end

\* C12: a call that won the compare-and-swap returns either the mapping,
\* with initState initDone, or nil, with initState initNotDone: after a failed
\* mapping, and after a size that does not match, which also unmaps the
\* file.  initState is initOngoing only while a winner has not returned.
C12_WinnerLeavesDoneOrNotDone ==
    /\ initLast.op = "success"
           => pmemInfo.initState = initDone /\ initHist.ret = mappedAddr
    /\ initLast.op = "mapFailed"
           => pmemInfo.initState = initNotDone /\ initHist.ret = 0
    /\ initLast.op = "sizeMismatch"
           => pmemInfo.initState = initNotDone /\ initHist.ret = 0 /\ ~mapped
    /\ pmemInfo.initState = initOngoing => Initializing # {}

\* A winner has found another size recorded in the header, unmapped the
\* file and returned nil, and initState admits a new call.
C12_Witness ==
    /\ initLast.op = "sizeMismatch"
    /\ initHist.ret = 0
    /\ ~mapped
    /\ pmemInfo.initState = initNotDone
    /\ Initializing = {}

\* C13: a call whose size less offset is under 64 MiB, or whose size is no
\* multiple of 64 MiB, or whose offset is no multiple of the page size,
\* returns nil and leaves pmemInfo, the file, the mapping, the heap and the
\* other callers as they were; no such call gets past the tests.
C13_BadArgsChangeNothing ==
    /\ initLast.op = "badArgs"
           => /\ initHist.ret = 0
              /\ pmemInfo = initPrev
              /\ hdrMem = initHist.prev.hdrMem
              /\ hdrDur = initHist.prev.hdrDur
              /\ mapped = initHist.prev.mapped
              /\ heapFree = initHist.prev.heapFree
              /\ pc = initHist.prev.pc
    /\ \A c \in Initializing :
           /\ loc[c].size - loc[c].offset >= 67108864
           /\ loc[c].size % 67108864 = 0
           /\ loc[c].offset % 8192 = 0

\* A call with an offset that is not page-aligned has been refused while
\* another call was initializing.
C13_Witness ==
    /\ initLast.op = "badArgs"
    /\ initHist.args = [size |-> 2 * pmemInitSize, offset |-> 1]
    /\ initHist.ret = 0
    /\ Initializing # {}
    /\ pmemInfo.initState = initOngoing

\* C14: while a call that finds the magic in the header (not a first-time
\* call) is between the mapping and its return, no page of the region is in
\* the heap's free structures.
C14_NoPagesBeforeDone ==
    \A c \in Initializing :
        (/\ loc[c].addr # 0
         /\ ~loc[c].firstTime
         /\ hdrMem[magicAddr(loc[c].offset)] = pmemHdrMagic)
            => heapFree = NoSpan

(***************************************************************************)
(* Properties of the logging hooks on the heap type bits log.              *)
(***************************************************************************)
\* C15: each of logSpanAlloc, logSpanFree, logHeapBits and clearHeapBits,
\* called for a span whose memtype is not isPersistent, ends the process
\* with throw and has stored and flushed no byte of the span log or of the
\* heap type bits log: both logs and their durable images are as before.
C15_VolatileSpanIsFatal ==
    /\ (hbLast.op \in {"logHeapBits", "clearHeapBits"}
        /\ hbLast.arg.span.memtype # isPersistent)
           => /\ hbFatal
              /\ hbLast.written = {} /\ hbLast.persisted = {}
              /\ typeBits = typeBitsPrev /\ typeBitsDur = typeBitsPrevDur
    /\ (spanLast.op # "none")
           => /\ spanLast.op = "throwInvalid" /\ spanFatal
              /\ ~spanLast.stored /\ ~spanLast.didFlush
              /\ spanBitmap = spanPrev /\ spanDur = spanPrevDur
              /\ spanFlushed = {}

\* Each of the four hooks has been called for a volatile span.
C15_Witness ==
    /\ hbLast.op = "clearHeapBits"
    /\ hbLast.arg.span.memtype = isNotPersistent
    /\ typeBits # << >>
    /\ hbFatal

C15_WitnessSpanLog ==
    /\ spanLast.op = "throwInvalid"
    /\ typeBits # << >>

\* The zero bytes clearHeapBits is to leave from the log position of addr.
ClearedRange(arg) ==
    pmemHeapBitsAddr(arg.addr) ..
        (pmemHeapBitsAddr(arg.addr) + (arg.size \div bytesPerBitmapByte) - 1)

\* C17: clearHeapBits(addr, size) on a persistent span, with size not a
\* multiple of 32, fails and clears no byte of the log; with size a multiple
\* of 32 it zeroes exactly the size/32 bytes of log from the position of
\* addr.
C17_ClearNeedsMultipleOf32 ==
    (hbLast.op = "clearHeapBits" /\ hbLast.arg.span.memtype = isPersistent)
        => IF hbLast.arg.size % bytesPerBitmapByte # 0
           THEN /\ hbFatal
                /\ hbLast.written = {}
                /\ typeBits = typeBitsPrev
           ELSE /\ ~hbFatal
                /\ hbLast.written = ClearedRange(hbLast.arg)
                /\ \A p \in ClearedRange(hbLast.arg) : Get(typeBits, p) = 0
                /\ \A p \in DOMAIN typeBitsPrev \ ClearedRange(hbLast.arg) :
                       Get(typeBits, p) = typeBitsPrev[p]

\* The bytes of bits from position p that hold a value of intSize bytes.
IntAt(bits, p) == [i \in 1 .. intSize |-> Get(bits, p + i - 1)]

\* The descriptor record of a span kept for the type of index ti is at
\* position p of bits.
HasRecord(bits, p, ti) ==
    /\ IntAt(bits, p) = IntBytes(ti)
    /\ Get(bits, p + intSize) = Types[ti].kind
    /\ IntAt(bits, p + 16) = IntBytes(Types[ti].size)
    /\ IntAt(bits, p + 24) = IntBytes(Types[ti].ptrdata)
    /\ \A i \in 1 .. numHeapTypeBytes(Types[ti]) :
           Get(bits, p + 32 + i - 1) = Types[ti].gcdata[i]

\* The positions of the descriptor record of the span of the last call.
RecordRange(arg) ==
    pmemHeapBitsAddr(arg.span.base) ..
        (pmemHeapBitsAddr(arg.span.base) + 32
            + numHeapTypeBytes(Types[arg.typ]) - 1)

\* The last call was logHeapBits in optimized mode and returned.
OptimizedLogged ==
    /\ hbLast.op = "logHeapBits"
    /\ hbLast.arg.span.memtype = isPersistent
    /\ hbLast.arg.span.typIndex # 0

\* C18 (as stated): in optimized mode, once the typIndex stored at the log
\* position of the span's base equals the span's typIndex, a further call of
\* logHeapBits for an object of the span performs no write to the log.
C18_NoWriteOnceStored ==
    (OptimizedLogged
     /\ IntAt(typeBitsPrev, pmemHeapBitsAddr(hbLast.arg.span.base))
            = IntBytes(hbLast.arg.span.typIndex))
        => hbLast.written = {}

\* C18 (amended): in optimized mode logHeapBits writes one descriptor record
\* at the log position of the span's base, whichever object of the span it
\* is called for, and stores nowhere else; once the stored typIndex equals
\* the span's typIndex it does not store the typIndex again, and once the
\* whole record is there a further call stores the same bytes over it, so
\* that N calls leave exactly the record of the first call.
C18_OneDescriptorRecord ==
    OptimizedLogged
        => /\ ~hbFatal
           /\ hbLast.written \subseteq RecordRange(hbLast.arg)
           /\ hbLast.persisted = RecordRange(hbLast.arg)
           /\ \A p \in (DOMAIN typeBits \cup DOMAIN typeBitsPrev)
                           \ RecordRange(hbLast.arg) :
                  Get(typeBits, p) = Get(typeBitsPrev, p)
           /\ HasRecord(typeBits, pmemHeapBitsAddr(hbLast.arg.span.base),
                        hbLast.arg.span.typIndex)
           /\ HasRecord(typeBitsDur, pmemHeapBitsAddr(hbLast.arg.span.base),
                        hbLast.arg.span.typIndex)
           /\ (IntAt(typeBitsPrev, pmemHeapBitsAddr(hbLast.arg.span.base))
                   = IntBytes(hbLast.arg.span.typIndex))
                  => hbLast.written
                         \cap (pmemHeapBitsAddr(hbLast.arg.span.base) ..
                               (pmemHeapBitsAddr(hbLast.arg.span.base)
                                    + intSize - 1)) = {}
           /\ HasRecord(typeBitsPrev, pmemHeapBitsAddr(hbLast.arg.span.base),
                        hbLast.arg.span.typIndex)
                  => typeBits = typeBitsPrev

\* A second call for another object of a span whose record is in the log.
C18_Witness ==
    /\ OptimizedLogged
    /\ hbLast.arg.addr # hbLast.arg.span.base
    /\ HasRecord(typeBitsPrev, pmemHeapBitsAddr(hbLast.arg.span.base),
                 hbLast.arg.span.typIndex)
    /\ hbLast.written # {}

(***************************************************************************)
(* Properties of the logs of the region.                                   *)
(***************************************************************************)
\* The address of the last call is in the region.
InRegion == /\ pmemInfo.startAddr <= regLast.arg.addr
            /\ regLast.arg.addr <= pmemInfo.endAddr

\* C16: every address that is logged is in startAddr .. endAddr, at the
\* entry of its own page or its own 32 bytes; logHeapBits, logSpanAlloc and
\* logSpanFree called with an address outside of the region end the process
\* and store to no entry of either log, at a wrapped index or elsewhere.
C16_LoggedAddressInRegion ==
    (regLast.op # "none")
        => /\ (regLast.spanStored # {} \/ regLast.typeStored # {}) => InRegion
           /\ ~InRegion
                  => /\ regFatal
                     /\ regLast.spanStored = {} /\ regLast.typeStored = {}
                     /\ regSpanBitmap = regSpanPrev
                     /\ regTypeBitmap = regTypePrev
           /\ regLast.spanStored
                  \subseteq {(regLast.arg.addr - pmemInfo.startAddr)
                                 \div pageSize}
                            \cap (0 .. (pmemInfo.spanBitmap.len - 1))
           /\ \A i \in regLast.typeStored :
                  /\ i >= (regLast.arg.addr - pmemInfo.startAddr) \div 32
                  /\ i <= (regLast.arg.addr - pmemInfo.startAddr) \div 32 + 1
           /\ regLast.typeStored # {}
                  => (regLast.arg.addr - pmemInfo.startAddr) \div 32
                         \in regLast.typeStored
                              \cap (0 .. (pmemInfo.typeBitmap.len - 1))

\* logSpanFree for a persistent span below the region, after a span of the
\* region and an object of it were logged.
C16_Witness ==
    /\ regLast.op = "logSpanFree"
    /\ regLast.arg.persistent = isPersistent
    /\ pmemInfo.initState = initDone
    /\ regLast.arg.addr < pmemInfo.startAddr
    /\ regSpanBitmap # << >>
    /\ regTypeBitmap # << >>
    /\ regFatal

(***************************************************************************)
(* Properties of the undo log across crashes.                              *)
(***************************************************************************)
\* The fields the transaction begun last has logged or was to log.
LoggedFields == {txh.fields[j] : j \in 1 .. Len(txh.fields)}

\* Recovery has run to its end after a crash that followed the beginning of
\* a transaction.
Recovered ==
    /\ txh.set
    /\ txh.crashAt # "none"
    /\ upc.at = "idle"

\* C19: a transaction logEntry(f1) [, logEntry(f2)], writes of the fields,
\* commitLog, with a crash at any step of it or of recovery's revertLog,
\* and recovery run to its end: the durable values of the logged fields are
\* all the values before the transaction or all the values written, and the
\* durable numLogEntries is 0.
C19_CrashAtomic ==
    Recovered
        => /\ dur[numLogEntriesOff] = 0
           /\ \/ \A f \in LoggedFields : dur[f] = txh.pre[f]
              \/ \A f \in LoggedFields : dur[f] = txh.post[f]
           /\ ~fatal /\ ~wild

\* Recovery ended after two crashes, the second inside recovery's revertLog
\* of a transaction on two fields.
C19_Witness ==
    /\ Recovered
    /\ Len(txh.fields) = 2 /\ txh.fields[1] # txh.fields[2]
    /\ undoCrashes = 2 /\ txh.crashAt = "revertLogPersist"
    /\ \A f \in LoggedFields : dur[f] = txh.pre[f]

\* Recovery ended after a crash inside commitLog that left the values
\* written.
C19_WitnessCommitted ==
    /\ Recovered
    /\ Len(txh.fields) = 2 /\ txh.fields[1] # txh.fields[2]
    /\ undoCrashes = 1 /\ txh.crashAt = "commitLogPersistCount"
    /\ \A f \in LoggedFields : dur[f] = txh.post[f]

\* Entry i of the durable log is what logEntry was to record in it.
DurableEntry(i) ==
    /\ i + 1 <= Len(txh.entries)
    /\ dur[LogOffAddr(i)] = txh.entries[i + 1].off
    /\ dur[LogValAddr(i)] = txh.entries[i + 1].val

\* C20: at every point, when the durable numLogEntries is k > 0 the entries
\* 0 .. k-1 are durable, each with the offset of its field and the value
\* the field had when logEntry was called; the entry is durable when the
\* count that covers it is stored, and the count is durable when logEntry
\* has returned.
C20_WriteAhead ==
    /\ \A i \in 0 .. (maxLogEntries - 1) :
           i < dur[numLogEntriesOff]
               => /\ DurableEntry(i)
                  /\ txh.entries[i + 1].off = txh.fields[i + 1]
                  /\ txh.entries[i + 1].val = txh.pre[txh.fields[i + 1]]
    /\ dur[numLogEntriesOff] \in 0 .. maxLogEntries
    /\ upc.at \in {"logEntryPersistCount"}
           => /\ mem[numLogEntriesOff] = upc.ind + 1
              /\ DurableEntry(upc.ind)
    /\ upc.at \in {"logEntry", "logEntryVal", "logEntryPersist",
                   "logEntryCount", "logEntryPersistCount", "mutate"}
           => /\ dur[numLogEntriesOff] >= txh.returned
              /\ \A i \in 0 .. (txh.returned - 1) : DurableEntry(i)

\* A crash while the caller was writing, in a second transaction whose
\* entries replaced those of the first: both entries are durable.
C20_Witness ==
    /\ txCount = 2
    /\ upc.at = "recover"
    /\ txh.crashAt = "mutate"
    /\ dur[numLogEntriesOff] = 2
    /\ txh.fields[1] # txh.fields[2]
    /\ \E f \in LoggedFields : dur[f] # txh.pre[f]

(***************************************************************************)
(* Properties of the span log across crashes.                              *)
(***************************************************************************)
\* The last call was a logSpanAlloc that stored its value.
AllocStored == spanLast.op = "alloc" /\ spanLast.stored

\* C21: a logSpanAlloc that writes makes one atomic store and flushes the
\* entry it stored, and no other, without a fence; after the caller's fence
\* the entry is durable; until then the durable entry is a whole value, the
\* one before the call or the new one when the entry was durable before the
\* call.  The zero that logSpanFree stores is durable when it returns.
C21_AllocDurableAtFence ==
    /\ AllocStored
           => /\ spanBitmap[spanLast.page] = spanLast.val
              /\ spanLast.didFlush
              /\ spanFlushed = spanFlushedPrev \cup {spanLast.page}
              /\ \A p \in Pages \ {spanLast.page} :
                     spanBitmap[p] = spanPrev[p]
              /\ spanPrevDur[spanLast.page] = spanPrev[spanLast.page]
                     => spanDur[spanLast.page]
                            \in {spanPrev[spanLast.page], spanLast.val}
    /\ \A p \in Pages : spanDur[p] \in spanSince[p]
    /\ \A p \in Pages : spanDur[p] # spanBitmap[p] => p \in spanFlushed
    /\ spanLast.op = "fence" => spanDur = spanBitmap /\ spanFlushed = {}
    /\ spanLast.op = "free"
           => /\ spanBitmap[spanLast.page] = 0
              /\ spanDur[spanLast.page] = 0
              /\ spanFlushed = {}

\* An entry allocated again with other low bits, durable before the call:
\* before the fence the durable entry still holds the old value.
C21_Witness ==
    /\ AllocStored
    /\ spanPrev[spanLast.page] # 0
    /\ spanPrevDur[spanLast.page] = spanPrev[spanLast.page]
    /\ spanDur[spanLast.page] = spanPrev[spanLast.page]
    /\ spanLast.page \in spanFlushed

\* The same, with the new value in the durable image before the fence.
C21_WitnessWrittenBack ==
    /\ AllocStored
    /\ spanPrev[spanLast.page] # 0
    /\ spanPrevDur[spanLast.page] = spanPrev[spanLast.page]
    /\ spanDur[spanLast.page] = spanLast.val
    /\ spanLast.page \in spanFlushed

(***************************************************************************)
(* Properties of the span log under threads.                               *)
(***************************************************************************)
\* No call is in progress.
Quiescent == \A t \in Threads : tpc[t].at = "idle"

\* C22: with the threads' spans on distinct pages and one call at a time on
\* a span, every value the reader loads from an entry, and every value an
\* entry holds at any time, is 0 or a whole value that spanLogValue gave for
\* a span of that entry; and when a thread is between calls its entry holds
\* what its calls leave when they run alone in their order.
C22_NoTornNoInterference ==
    /\ observed.val \in {0} \cup issued[observed.page]
    /\ \A p \in Pages : spanBitmap[p] \in {0} \cup issued[p]
    /\ ~spanFatal
           => \A t \in Threads :
                  tpc[t].at = "idle" => spanBitmap[t] = alone[t]

\* Two calls are in progress at once, the second of the other thread, and
\* the reader has loaded the value one of them stored.
C22_Witness ==
    /\ tpc[0].at = "allocFlush"
    /\ tpc[1].at = "freePersist"
    /\ tcalls[1] = 2
    /\ observed = [page |-> 0, val |-> tpc[0].logVal]
    /\ ~spanFatal

\* Every thread has made two calls and the entries hold their last values.
C22_WitnessQuiescent ==
    /\ Quiescent /\ ~spanFatal
    /\ \A t \in Threads : tcalls[t] = 2 /\ spanBitmap[t] # 0

(***************************************************************************)
(* Properties of spanLogValue.                                             *)
(***************************************************************************)
IsLarge(s) == s.elemsize > maxSmallSize

\* What the claim takes to tell two spans apart: small or large, the span
\* class, the pages of a large span, the optimized-type flag, needzero.
SpanKey(s) ==
    <<IsLarge(s), s.spanclass,
      IF IsLarge(s) THEN Shr(s.elemsize, pageShift) ELSE 0,
      s.typIndex # 0, s.needzero>>

\* The same, with the optimized-type flag of small spans only.
SpanKeyEncoded(s) ==
    <<IsLarge(s), s.spanclass,
      IF IsLarge(s) THEN Shr(s.elemsize, pageShift) ELSE 0,
      ~IsLarge(s) /\ s.typIndex # 0, s.needzero>>

\* C23 (as stated): spanLogValue is never 0, and two valid spans that differ
\* in small/large kind, span class, pages of a large span, optimized-type
\* flag or needzero never have the same value.
C23_ValueInjective ==
    (encVals # NotEncoded)
        => /\ encVals[1] # 0 /\ encVals[2] # 0
           /\ SpanKey(encSpans[1]) # SpanKey(encSpans[2])
                  => encVals[1] # encVals[2]

\* C23 (amended): spanLogValue is never 0; two valid spans that differ in
\* small/large kind, span class, pages of a large span, needzero, or, for
\* small spans, the optimized-type flag never have the same value; large
\* spans that differ in the optimized-type flag only have the same value;
\* the value of a small span is below the value of every large span.
C23_ValueInjectiveButLargeFlag ==
    (encVals # NotEncoded)
        => /\ encVals[1] # 0 /\ encVals[2] # 0
           /\ encVals[1] = spanLogValue(encSpans[1])
           /\ (SpanKeyEncoded(encSpans[1]) = SpanKeyEncoded(encSpans[2]))
                  <=> (encVals[1] = encVals[2])
           /\ (~IsLarge(encSpans[1]) /\ IsLarge(encSpans[2]))
                  => encVals[1] < encVals[2]

\* The small span with the largest value and the large span with the
\* smallest value have been encoded.
C23_Witness ==
    /\ encVals # NotEncoded
    /\ encSpans[1].spanclass = 133 /\ encSpans[1].needzero = 1
    /\ encSpans[1].typIndex # 0
    /\ IsLarge(encSpans[2]) /\ encSpans[2].spanclass = 0
    /\ encSpans[2].needzero = 0
    /\ Shr(encSpans[2].elemsize, pageShift) = minLargePages
    /\ encVals[2] = encVals[1] + 1

(***************************************************************************)
(* Properties of the layout PmallocInit installs.                          *)
(***************************************************************************)
\* PmallocInit has succeeded in the running process; its arguments are in
\* initHist.last.
Installed ==
    /\ pmemInfo.initState = initDone
    /\ initHist.last.set /\ initHist.last.gen = crashes

\* The first byte and the byte after the last of the two windows, of the
\* header and of the area the caller reserved with 'offset'.
SpanWindow ==
    [lo |-> pmemInfo.spanBitmap.addr,
     hi |-> pmemInfo.spanBitmap.addr
                + pmemInfo.spanBitmap.len * logBytesPerPage]
TypeWindow ==
    [lo |-> pmemInfo.typeBitmap.addr,
     hi |-> pmemInfo.typeBitmap.addr + pmemInfo.typeBitmap.len]
HeaderRange ==
    [lo |-> mappedAddr + initHist.last.offset,
     hi |-> mappedAddr + initHist.last.offset + pmemHdrSize]
OffsetArea == [lo |-> mappedAddr, hi |-> mappedAddr + initHist.last.offset]

Disjoint(a, b) == a.hi <= b.lo \/ b.hi <= a.lo
Inside(a, b) == b.lo <= a.lo /\ a.hi <= b.hi

\* The span-log slot of the page at addr and the type-bitmap byte of the
\* 32-byte granule at addr, as the logging routines index them.
SlotOfPage(addr) ==
    LET index == Shr(addr - pmemInfo.startAddr, pageShift)
    IN  [lo |-> pmemInfo.spanBitmap.addr + index * logBytesPerPage,
         hi |-> pmemInfo.spanBitmap.addr + (index + 1) * logBytesPerPage]
ByteOfGranule(addr) ==
    LET index == (addr - pmemInfo.startAddr) \div 32
    IN  [lo |-> pmemInfo.typeBitmap.addr + index,
         hi |-> pmemInfo.typeBitmap.addr + index + 1]

\* The first two and the last two pages and granules of the usable range.
EdgePages ==
    {pmemInfo.startAddr, pmemInfo.startAddr + pageSize,
     pmemInfo.endAddr + 1 - 2 * pageSize, pmemInfo.endAddr + 1 - pageSize}
EdgeGranules ==
    {pmemInfo.startAddr, pmemInfo.startAddr + 32,
     pmemInfo.endAddr + 1 - 64, pmemInfo.endAddr + 1 - 32}

\* C24: after a successful PmallocInit the span-bitmap window and the
\* type-bitmap window overlap neither each other nor the 16-byte header nor
\* the area of 'offset' bytes the caller reserved, and end at or below
\* startAddr; the usable range is whole pages inside the mapping, the span
\* window has one slot per usable page and the type window one byte per
\* 32-byte granule of [startAddr, endAddr], each inside its window and
\* apart from the next.
C24_WindowsApart ==
    Installed
        => /\ Disjoint(SpanWindow, TypeWindow)
           /\ Disjoint(SpanWindow, HeaderRange)
           /\ Disjoint(TypeWindow, HeaderRange)
           /\ Disjoint(SpanWindow, OffsetArea)
           /\ Disjoint(TypeWindow, OffsetArea)
           /\ SpanWindow.lo >= mappedAddr /\ TypeWindow.lo >= mappedAddr
           /\ SpanWindow.hi <= pmemInfo.startAddr
           /\ TypeWindow.hi <= pmemInfo.startAddr
           /\ pmemInfo.startAddr % pageSize = 0
           /\ pmemInfo.endAddr + 1 <= mappedAddr + initHist.last.size
           /\ pmemInfo.spanBitmap.len * pageSize
                  = pmemInfo.endAddr + 1 - pmemInfo.startAddr
           /\ pmemInfo.typeBitmap.len * 32
                  = pmemInfo.endAddr + 1 - pmemInfo.startAddr
           /\ \A p \in EdgePages : Inside(SlotOfPage(p), SpanWindow)
           /\ \A g \in EdgeGranules : Inside(ByteOfGranule(g), TypeWindow)
           /\ \A p, q \in EdgePages :
                  p # q => Disjoint(SlotOfPage(p), SlotOfPage(q))
           /\ \A g, h \in EdgeGranules :
                  g # h => Disjoint(ByteOfGranule(g), ByteOfGranule(h))

\* PmallocInit has succeeded with a page reserved by the caller and a region
\* of two arenas.
C24_Witness ==
    /\ Installed
    /\ initHist.last.offset = pageSize
    /\ initHist.last.size = 2 * pmemInitSize
    /\ pmemInfo.spanBitmap.len > 0

\* PmallocInit has succeeded with nothing reserved by the caller.
C24_WitnessNoOffset ==
    /\ Installed
    /\ initHist.last.offset = 0
    /\ SpanWindow.lo = mappedAddr + pmemHdrSize

(***************************************************************************)
(* Properties of logHeapBits when the span is not kept for one type.       *)
(***************************************************************************)
\* The arena's type bitmap has one byte for every bytesPerBitmapByte bytes
\* of the arena's pages; the span bitmap follows it.
typeBitmapBytes == (Cardinality(Pages) * pageSize) \div bytesPerBitmapByte

\* The last call was logHeapBits for an object of a persistent span that is
\* not kept for one type.
DirectLogged ==
    /\ hbLast.op = "logHeapBits"
    /\ hbLast.arg.span.memtype = isPersistent
    /\ hbLast.arg.span.typIndex = 0

\* The object of the last call and the bytes its heap type bits describe are
\* in the arena's pages.
ObjectInArena ==
    /\ hbLast.arg.addr >= arenaStart
    /\ hbLast.arg.addr + hbLast.arg.span.elemsize
           <= arenaStart + Cardinality(Pages) * pageSize
    /\ hbLast.arg.size * bytesPerBitmapByte
           <= hbLast.arg.span.elemsize + bytesPerBitmapByte - 1

\* The positions of the n bytes from (addr - arenaStart) / 32.
DirectRange ==
    LET index == (hbLast.arg.addr - arenaStart) \div 32
    IN  index .. (index + hbLast.arg.size - 1)

\* C25: logHeapBits for an object at addr of a span not kept for one type,
\* with n bytes of heap type bits, stores exactly the n bytes of the type
\* bitmap from position (addr - arenaStart) / 32, which then hold the heap
\* type bits, and flushes exactly these; every other byte of the type
\* bitmap is as before, in memory and on the medium; with the object in the
\* arena's pages the positions are inside the type bitmap, below the span
\* bitmap that follows it.
C25_DirectFrame ==
    DirectLogged
        => /\ hbLast.written = DirectRange
           /\ hbLast.persisted = DirectRange
           /\ \E heapBits \in HeapBitsOf :
                  /\ Len(heapBits) = hbLast.arg.size
                  /\ \A q \in DirectRange :
                         LET i == q - (hbLast.arg.addr - arenaStart) \div 32 + 1
                         IN  /\ Get(typeBits, q) = heapBits[i]
                             /\ Get(typeBitsDur, q) = heapBits[i]
           /\ \A q \in (DOMAIN typeBits \cup DOMAIN typeBitsPrev
                            \cup DOMAIN typeBitsDur \cup DOMAIN typeBitsPrevDur)
                       \ DirectRange :
                  /\ Get(typeBits, q) = Get(typeBitsPrev, q)
                  /\ Get(typeBitsDur, q) = Get(typeBitsPrevDur, q)
           /\ ObjectInArena
                  => \A q \in hbLast.written : q >= 0 /\ q < typeBitmapBytes

\* The heap type bits of the last object of the arena's last page have been
\* logged over bytes that held other bits, next to bytes that stay.
C25_Witness ==
    /\ DirectLogged /\ ObjectInArena
    /\ hbLast.arg.addr + 2 * hbLast.arg.span.elemsize
           > arenaStart + Cardinality(Pages) * pageSize
    /\ hbLast.arg.size = 2
    /\ \E q \in DirectRange : Get(typeBits, q) # Get(typeBitsPrev, q)
    /\ \E q \in DOMAIN typeBits : q \notin DirectRange

(***************************************************************************)
(* The heap after PmallocInit unmapped the file.                           *)
(***************************************************************************)
\* The addresses of the file's mapping.
MappingRange(size) == [lo |-> mappedAddr, hi |-> mappedAddr + size]

\* The addresses of the span growPmemRegion freed into the heap.
HeapFreeRange ==
    [lo |-> heapFree.base,
     hi |-> heapFree.base + Shl(heapFree.npages, pageShift)]

\* C26: after PmallocInit found another size recorded, unmapped the file and
\* returned nil, the heap holds no free span with a page in the addresses
\* that were unmapped.
C26_NoFreeSpanOverUnmapped ==
    (initLast.op = "sizeMismatch" /\ ~mapped)
        => \/ heapFree.npages = 0
           \/ \A size \in Sizes : Disjoint(HeapFreeRange, MappingRange(size))

=============================================================================
